---- MODULE Spec2Model ----
(***************************************************************************)
(* Model of the youtube-music-mapper backend core:                         *)
(*   - MusicGraphBuilder (src/backend/graph_builder.py): the artist graph  *)
(*     built from liked songs, library artists and related artists;        *)
(*   - the similarity measures of src/backend/taste_similarity.py;         *)
(*   - the profile and group files of src/backend/profile_manager.py and   *)
(*     the group-results route of src/backend/server.py.                   *)
(*                                                                         *)
(* Conventions.                                                            *)
(*   - A Python dict is a sequence of records in insertion order, looked   *)
(*     up by key (Find); a missing or None string field is "".             *)
(*   - Edge weights are kept in units of 0.5: a collaboration              *)
(*     adds 2 (1.0), a related-artist signal adds 1 (0.5).                 *)
(*   - A float is a fraction [num, den] of naturals, den > 0; the result of *)
(*     cosine_similarity is [num, radicand], read as num / sqrt(radicand). *)
(***************************************************************************)
EXTENDS Integers, Sequences, FiniteSets, TLC

VARIABLES
    pc,               \* position of the builder's caller (server.py:123-133)
    music_data,       \* content of music_data.json
    artist_songs,     \* MusicGraphBuilder.artist_songs
    artist_info,      \* MusicGraphBuilder.artist_info
    graph,            \* MusicGraphBuilder.graph: [nodes, edges]
    limit_per_artist, \* add_related_artists: argument
    artist_ids,       \* add_related_artists: list(self.artist_info.keys())[:50]
    rel_i,            \* add_related_artists: index of the artist queried next
    info,             \* add_related_artists: last answer of client.get_artist_info
    graph_data,       \* export_for_visualization: the exported document
    records_read,     \* the number of records read so far
    called,           \* taste_similarity.py: the function called last
    arg1,             \* its first argument
    arg2,             \* its second argument
    result,           \* what it returned
    arg3,             \* its third argument (the genre lookup)
    calls,            \* the calls of calculate_similarity it made
    profile_files,    \* PROFILES_DIR: the profile stored under each id
    public_index,     \* PROFILES_DIR/_public_index.json: its "profiles" list
    group_files,      \* GROUPS_DIR: the group stored under each id
    response          \* the last call on the files and what it returned

gvars == <<pc, music_data, artist_songs, artist_info, graph,
           limit_per_artist, artist_ids, rel_i, info, graph_data, records_read>>
svars == <<called, arg1, arg2, result>>
evars == <<arg3, calls>>
pvars == <<profile_files, public_index, group_files, response>>
vars == <<gvars, svars, evars, pvars>>

\* No call on the files yet.
NoResponse ==
    [op |-> "none", group_id |-> "", profile_id |-> "", returned |-> "",
     computed |-> FALSE, passed |-> <<>>, body |-> <<>>]

\* The directories as ensure_dirs creates them.
IdleStore ==
    /\ profile_files = <<>>
    /\ public_index = <<>>
    /\ group_files = <<>>
    /\ response = NoResponse

(***************************************************************************)
(* Bound of the inputs: a run reads at most MaxRecords records, counting   *)
(* every artist credit, library artist and related artist, and as one a    *)
(* song without credits.                                                   *)
(***************************************************************************)
MaxRecords == 4

ArtistIds == {"a", "b", "c"}

\* The records {"id", "name"} of a list whose artists are named `name`: one of
\* ArtistIds, artist "c" without its name, or an artist without identifier.
Records(name) ==
    [id : ArtistIds, name : {name}]
        \cup {[id |-> "c", name |-> ""], [id |-> "", name |-> name]}

\* The artist credits of a song.
Credits == Records("N")

SeqsOfLen(S, n) == [1..n -> S]
SeqsUpTo(S, n) == UNION {SeqsOfLen(S, k) : k \in 0..n}

(***************************************************************************)
(* A list of liked songs is drawn as a sequence of tokens, one per record: *)
(* an artist credit, which opens a new song (start) or goes on with the    *)
(* last one, or a song without credits (credit = NoCredit).  The k-th song *)
(* of a list has the identifier "k": every song of the inputs has an       *)
(* identifier of its own.                                                  *)
(***************************************************************************)
NoCredit == [id |-> "", name |-> ""]

Tokens ==
    {t \in [credit : Credits \cup {NoCredit}, start : BOOLEAN] :
        t.credit = NoCredit => t.start}

TokenLists(n) ==
    {toks \in SeqsOfLen(Tokens, n) :
        /\ n > 0 => toks[1].start
        /\ \A i \in 2..n : toks[i - 1].credit = NoCredit => toks[i].start}

Starts(toks) == {i \in 1..Len(toks) : toks[i].start}

\* The song that the token at position s opens.
SongAt(toks, s) ==
    LET last == CHOOSE e \in s..Len(toks) :
                    /\ \A i \in (s + 1)..e : ~toks[i].start
                    /\ e = Len(toks) \/ toks[e + 1].start
    IN  [id |-> ToString(Cardinality({i \in Starts(toks) : i <= s})),
         artists |-> IF toks[s].credit = NoCredit THEN <<>>
                     ELSE [j \in 1..(last - s + 1) |-> toks[s + j - 1].credit]]

SongsOf(toks) ==
    [k \in 1..Cardinality(Starts(toks)) |->
        SongAt(toks, CHOOSE s \in Starts(toks) :
                         Cardinality({i \in Starts(toks) : i <= s}) = k)]

(***************************************************************************)
(* Dict helpers.                                                           *)
(***************************************************************************)
Find(d, key) ==
    IF \E i \in 1..Len(d) : d[i].id = key
    THEN CHOOSE i \in 1..Len(d) : d[i].id = key
    ELSE 0

Keys(d) == [i \in 1..Len(d) |-> d[i].id]

\* TLC passes an argument unevaluated; Evaluated(v) is TRUE and leaves v
\* evaluated, which keeps the evaluation depth of a loop down to its length.
Evaluated(v) == v = v

(***************************************************************************)
(* networkx.Graph as the builder uses it: an undirected simple graph.      *)
(* An edge is [u, v, weight, songs, type]; u, v keep the order of the      *)
(* add_edge call that created it.  A "similar" edge has no songs           *)
(* attribute (<<>>).  add_edge also adds its endpoints as nodes.           *)
(***************************************************************************)
COLLAB_WEIGHT == 2   \* weight=1   (graph_builder.py:81,84)
SIMILAR_WEIGHT == 1  \* weight=0.5 (graph_builder.py:118,120)

\* The mutant of Joins: a directed graph, an edge only joins u to v.
JoinsDirected(e, u, v) == e.u = u /\ e.v = v

\* e is the edge between u and v (nx.Graph: in either direction).
Joins(e, u, v) == (e.u = u /\ e.v = v) \/ (e.u = v /\ e.v = u)

EdgeIndex(edges, u, v) ==
    IF \E i \in 1..Len(edges) : Joins(edges[i], u, v)
    THEN CHOOSE i \in 1..Len(edges) : Joins(edges[i], u, v)
    ELSE 0

has_edge(g, u, v) == EdgeIndex(g.edges, u, v) # 0

\* A node and its attributes; an attribute that was never set reads as the
\* default every reader gives to .get (name "", song_count 0, ...).
Node(id, name, song_count, thumbnail, in_library, is_related) ==
    [id |-> id, name |-> name, song_count |-> song_count, thumbnail |-> thumbnail,
     in_library |-> in_library, is_related |-> is_related]

AddNodeIfAbsent(nodes, n) ==
    IF Find(nodes, n) # 0 THEN nodes
    ELSE Append(nodes, Node(n, "", 0, "", FALSE, FALSE))

\* graph.add_edge(u, v, weight=w, songs=songs, type=type) for a new edge.
add_edge(g, u, v, w, songs, type) ==
    [nodes |-> AddNodeIfAbsent(AddNodeIfAbsent(g.nodes, u), v),
     edges |-> Append(g.edges, [u |-> u, v |-> v, weight |-> w,
                                songs |-> songs, type |-> type])]

EmptyGraph == [nodes |-> <<>>, edges |-> <<>>]

(***************************************************************************)
(* MusicGraphBuilder._process_liked_songs                                  *)
(***************************************************************************)
NewInfo(id, name, related) ==
    [id |-> id, name |-> name, song_count |-> 0, thumbnail |-> "",
     in_library |-> FALSE, is_related |-> related]

\* self.artist_songs[artist_id].append(song) on a defaultdict(list)
AppendSong(songs_of, artist_id, song) ==
    LET k == Find(songs_of, artist_id)
    IN  IF k = 0
        THEN Append(songs_of, [id |-> artist_id, songs |-> <<song>>])
        ELSE [songs_of EXCEPT ![k].songs = Append(@, song)]

\* The body of the inner loop: one artist credit of one song.
ProcessCredit(b, song, artist) ==
    IF artist.id # "" /\ artist.name # ""
    THEN LET i1 == IF Find(b.artist_info, artist.id) = 0
                   THEN Append(b.artist_info, NewInfo(artist.id, artist.name, FALSE))
                   ELSE b.artist_info
             k  == Find(i1, artist.id)
         IN  [b EXCEPT !.artist_songs = AppendSong(@, artist.id, song),
                       !.artist_info = [i1 EXCEPT ![k].song_count = @ + 1]]
    ELSE b

RECURSIVE ProcessCredits(_, _, _)
ProcessCredits(b, song, j) ==
    IF j > Len(song.artists) THEN b
    ELSE ProcessCredits(ProcessCredit(b, song, song.artists[j]), song, j + 1)

RECURSIVE ProcessSongsFrom(_, _, _)
ProcessSongsFrom(b, songs, i) ==
    IF Evaluated(b) /\ i > Len(songs) THEN b
    ELSE ProcessSongsFrom(ProcessCredits(b, songs[i], 1), songs, i + 1)

process_liked_songs(b, songs) == ProcessSongsFrom(b, songs, 1)

(***************************************************************************)
(* MusicGraphBuilder._process_library_artists                              *)
(***************************************************************************)
LIB_THUMBNAIL == "thumb"

\* A mutant of ProcessLibraryArtist: the record's name replaces the name of
\* a known artist.
ProcessLibraryArtistRename(b, artist) ==
    IF artist.id # ""
    THEN LET i1 == IF Find(b.artist_info, artist.id) = 0
                   THEN Append(b.artist_info, NewInfo(artist.id, artist.name, FALSE))
                   ELSE b.artist_info
             k  == Find(i1, artist.id)
         IN  [b EXCEPT !.artist_info =
                 [i1 EXCEPT ![k].name = artist.name,
                            ![k].thumbnail = artist.thumbnail,
                            ![k].in_library = TRUE]]
    ELSE b

ProcessLibraryArtist(b, artist) ==
    IF artist.id # ""
    THEN LET i1 == IF Find(b.artist_info, artist.id) = 0
                   THEN Append(b.artist_info, NewInfo(artist.id, artist.name, FALSE))
                   ELSE b.artist_info
             k  == Find(i1, artist.id)
         IN  [b EXCEPT !.artist_info =
                 [i1 EXCEPT ![k].thumbnail = artist.thumbnail,
                            ![k].in_library = TRUE]]
    ELSE b

RECURSIVE ProcessLibraryFrom(_, _, _)
ProcessLibraryFrom(b, artists, i) ==
    IF Evaluated(b) /\ i > Len(artists) THEN b
    ELSE ProcessLibraryFrom(ProcessLibraryArtist(b, artists[i]), artists, i + 1)

process_library_artists(b, artists) == ProcessLibraryFrom(b, artists, 1)

(***************************************************************************)
(* MusicGraphBuilder._build_co_occurrence_edges                            *)
(***************************************************************************)
IdsOf(credits) == SelectSeq(Keys(credits), LAMBDA x : x # "")

\* song_artists[song_id].append(a.get("id")) for every credit with an id
ExtendSongArtists(song_artists, song) ==
    IF song.id = "" THEN song_artists
    ELSE LET k == Find(song_artists, song.id)
         IN  IF k = 0
             THEN IF IdsOf(song.artists) = <<>> THEN song_artists
                  ELSE Append(song_artists,
                              [id |-> song.id, artists |-> IdsOf(song.artists)])
             ELSE [song_artists EXCEPT ![k].artists = @ \o IdsOf(song.artists)]

RECURSIVE SongArtistsOfSongs(_, _, _)
SongArtistsOfSongs(song_artists, songs, j) ==
    IF j > Len(songs) THEN song_artists
    ELSE SongArtistsOfSongs(ExtendSongArtists(song_artists, songs[j]), songs, j + 1)

\* The first loop: over self.artist_songs.items(), then over each artist's songs.
RECURSIVE SongArtistsFrom(_, _, _)
SongArtistsFrom(song_artists, songs_of, i) ==
    IF i > Len(songs_of) THEN song_artists
    ELSE SongArtistsFrom(SongArtistsOfSongs(song_artists, songs_of[i].songs, 1),
                         songs_of, i + 1)

\* The body of the innermost loop of the second part: one pair a1, a2.
CollaborationEdge(g, a1, a2, song_id) ==
    IF a1 # a2
    THEN IF has_edge(g, a1, a2)
         THEN [g EXCEPT !.edges[EdgeIndex(g.edges, a1, a2)] =
                   [@ EXCEPT !.weight = @ + COLLAB_WEIGHT,
                             !.songs = Append(@, song_id)]]
         ELSE add_edge(g, a1, a2, COLLAB_WEIGHT, <<song_id>>, "collaboration")
    ELSE g

\* for a2 in artists[i+1:], from position j on
RECURSIVE PairsOf(_, _, _, _, _)
PairsOf(g, artists, song_id, i, j) ==
    IF Evaluated(g) /\ j > Len(artists) THEN g
    ELSE PairsOf(CollaborationEdge(g, artists[i], artists[j], song_id),
                 artists, song_id, i, j + 1)

\* for i, a1 in enumerate(artists), from position i on
RECURSIVE PairsFrom(_, _, _, _)
PairsFrom(g, artists, song_id, i) ==
    IF Evaluated(g) /\ i > Len(artists) THEN g
    ELSE PairsFrom(PairsOf(g, artists, song_id, i, i + 1), artists, song_id, i + 1)

\* for song_id, artists in song_artists.items(), from position k on
RECURSIVE EdgesFrom(_, _, _)
EdgesFrom(g, song_artists, k) ==
    IF k > Len(song_artists) THEN g
    ELSE EdgesFrom(IF Len(song_artists[k].artists) > 1
                   THEN PairsFrom(g, song_artists[k].artists, song_artists[k].id, 1)
                   ELSE g,
                   song_artists, k + 1)

build_co_occurrence_edges(b) ==
    [b EXCEPT !.graph = EdgesFrom(@, SongArtistsFrom(<<>>, b.artist_songs, 1), 1)]

(***************************************************************************)
(* MusicGraphBuilder.load_from_json                                        *)
(***************************************************************************)
load_from_json(b, data) ==
    build_co_occurrence_edges(
        process_library_artists(
            process_liked_songs(b, data.liked_songs), data.library_artists))

(***************************************************************************)
(* MusicGraphBuilder.add_related_artists                                   *)
(***************************************************************************)
ARTIST_LIMIT == 50

\* A mutant of Take: the slice keeps the whole list.
TakeAll(s, n) == s

\* s[:n]
Take(s, n) == IF Len(s) <= n THEN s ELSE SubSeq(s, 1, n)

\* The mutant of RelatedArtist: add_edge without asking has_edge, which
\* sets weight and type of an edge that exists.
RelatedArtistOverwrite(b, artist_id, related) ==
    IF related.id # ""
    THEN LET i1 == IF Find(b.artist_info, related.id) = 0
                   THEN Append(b.artist_info, NewInfo(related.id, related.name, TRUE))
                   ELSE b.artist_info
             g  == b.graph
         IN  [b EXCEPT !.artist_info = i1,
                       !.graph =
                           IF has_edge(g, artist_id, related.id)
                           THEN [g EXCEPT !.edges[EdgeIndex(g.edges, artist_id, related.id)] =
                                    [@ EXCEPT !.weight = SIMILAR_WEIGHT, !.type = "similar"]]
                           ELSE add_edge(g, artist_id, related.id, SIMILAR_WEIGHT,
                                         <<>>, "similar")]
    ELSE b

\* One related artist of artist_id (graph_builder.py:105-120).
RelatedArtist(b, artist_id, related) ==
    IF related.id # ""
    THEN LET i1 == IF Find(b.artist_info, related.id) = 0
                   THEN Append(b.artist_info, NewInfo(related.id, related.name, TRUE))
                   ELSE b.artist_info
             g  == b.graph
         IN  [b EXCEPT !.artist_info = i1,
                       !.graph =
                           IF has_edge(g, artist_id, related.id)
                           THEN [g EXCEPT !.edges[EdgeIndex(g.edges, artist_id, related.id)].weight
                                              = @ + SIMILAR_WEIGHT]
                           ELSE add_edge(g, artist_id, related.id, SIMILAR_WEIGHT,
                                         <<>>, "similar")]
    ELSE b

RECURSIVE RelatedFrom(_, _, _, _)
RelatedFrom(b, artist_id, related, j) ==
    IF j > Len(related) THEN b
    ELSE RelatedFrom(RelatedArtist(b, artist_id, related[j]), artist_id, related, j + 1)

\* The body of the loop over artist_ids, given the client's answer
\* (graph_builder.py:94-120).  An empty answer ({}) is [ok |-> FALSE].
ExpandArtist(b, artist_id, answer, limit) ==
    IF answer.ok
    THEN LET k  == Find(b.artist_info, artist_id)
             b1 == [b EXCEPT !.artist_info[k].thumbnail = answer.thumbnail]
         IN  RelatedFrom(b1, artist_id, Take(answer.related_artists, limit), 1)
    ELSE b

(***************************************************************************)
(* MusicGraphBuilder.build_graph_nodes, export_for_visualization           *)
(***************************************************************************)
\* self.graph.add_node(artist_id, name=..., ...): adds the node or updates it.
add_node(nodes, a) ==
    LET n == Node(a.id, a.name, a.song_count, a.thumbnail, a.in_library, a.is_related)
        k == Find(nodes, a.id)
    IN  IF k = 0 THEN Append(nodes, n)
        ELSE [nodes EXCEPT ![k] = [f \in DOMAIN @ \cup DOMAIN n |->
                                      IF f \in DOMAIN n THEN n[f] ELSE @[f]]]

RECURSIVE AddNodesFrom(_, _, _)
AddNodesFrom(nodes, infos, i) ==
    IF Evaluated(nodes) /\ i > Len(infos) THEN nodes
    ELSE AddNodesFrom(add_node(nodes, infos[i]), infos, i + 1)

build_graph_nodes(b) == [b EXCEPT !.graph.nodes = AddNodesFrom(@, b.artist_info, 1)]

\* An importance is [exact, num, den]: the fraction num / den when exact,
\* and num / den times the node's PageRank score, which the model does not
\* determine, otherwise.
DEFAULT_IMPORTANCE == [exact |-> TRUE, num |-> 1, den |-> 100]   \* 0.01
BOOST_DEN == 10                                                  \* song_count * 0.1

\* nx.pagerank(self.graph, weight="weight"): without edges every node is
\* dangling and the scores stay at their start, 1 / k for k nodes; with edges
\* the scores are those of the library's iteration, left undetermined.
pagerank(g) ==
    [i \in 1..Len(g.nodes) |->
        IF g.edges = <<>> THEN [exact |-> TRUE, num |-> 1, den |-> Len(g.nodes)]
        ELSE [exact |-> FALSE, num |-> 1, den |-> 1]]

\* node[field] = value
SetField(node, field, value) ==
    [f \in DOMAIN node \cup {field} |-> IF f = field THEN value ELSE node[f]]

\* node_data.get("importance", 0.01)
ImportanceOf(node) ==
    IF "importance" \in DOMAIN node THEN node.importance ELSE DEFAULT_IMPORTANCE

\* A mutant of Boosted: the base importance without the boost.
Unboosted(base_importance, song_count) == base_importance

\* base_importance * (1 + song_count * 0.1)
Boosted(base_importance, song_count) ==
    [base_importance EXCEPT !.num = @ * (BOOST_DEN + song_count), !.den = @ * BOOST_DEN]

\* A mutant of calculate_node_importance: a node that has an importance
\* keeps it as its base.
ImportanceCompounded(b) ==
    LET nodes == b.graph.nodes
        scored == [i \in 1..Len(nodes) |->
                      IF "importance" \in DOMAIN nodes[i] THEN nodes[i]
                      ELSE SetField(nodes[i], "importance", pagerank(b.graph)[i])]
    IN  [b EXCEPT !.graph.nodes =
            [i \in 1..Len(scored) |->
                SetField(scored[i], "importance",
                         Boosted(ImportanceOf(scored[i]), scored[i].song_count))]]

calculate_node_importance(b) ==
    LET nodes == b.graph.nodes
        scored == IF Len(nodes) > 0
                  THEN [i \in 1..Len(nodes) |->
                           SetField(nodes[i], "importance", pagerank(b.graph)[i])]
                  ELSE nodes
    IN  [b EXCEPT !.graph.nodes =
            [i \in 1..Len(scored) |->
                SetField(scored[i], "importance",
                         Boosted(ImportanceOf(scored[i]), scored[i].song_count))]]

Link(e) == [source |-> e.u, target |-> e.v, weight |-> e.weight, type |-> e.type]

\* nodes.append({...}): the exported fields of a node (the genre, read from
\* genre_map.json, is left out).
ExportNode(node) ==
    [id |-> node.id, name |-> node.name, song_count |-> node.song_count,
     thumbnail |-> node.thumbnail, importance |-> ImportanceOf(node),
     in_library |-> node.in_library, is_related |-> node.is_related]

\* The exported document: nodes, links (stats are counts of these).
GraphData(g) ==
    [nodes |-> [i \in 1..Len(g.nodes) |-> ExportNode(g.nodes[i])],
     links |-> [i \in 1..Len(g.edges) |-> Link(g.edges[i])]]

NoData == [nodes |-> <<>>, links |-> <<>>]

(***************************************************************************)
(* The builder as its caller drives it (server.py:123-133, and             *)
(* graph_builder.py:211-222): a new builder loads music_data.json, may     *)
(* expand related artists (one client call per known artist), and exports. *)
(***************************************************************************)
LibraryRecords ==
    {[id |-> r.id, name |-> r.name, thumbnail |-> LIB_THUMBNAIL] : r \in Records("L")}

RelatedIds == ArtistIds \cup {"r"}
\* A related-artist record {"id", "name"}; the new artist "r" may come without
\* name, and a record may come without id.
RelatedRecords ==
    [id : RelatedIds, name : {"R"}] \cup {[id |-> "r", name |-> ""], [id |-> "", name |-> "R"]}

\* limit_per_artist as the server passes it (server.py:129)
SERVER_LIMIT == 3

INFO_THUMBNAIL == "art"
NoAnswer == [ok |-> FALSE, thumbnail |-> "", related_artists |-> <<>>]
\* The answers of client.get_artist_info with at most n related artists.
ClientAnswers(n) ==
    {NoAnswer} \cup [ok : {TRUE}, thumbnail : {INFO_THUMBNAIL},
                     related_artists : SeqsUpTo(RelatedRecords, n)]

\* The contents of music_data.json with n records of songs and l library artists.
MusicData(n, l) ==
    {[liked_songs |-> SongsOf(toks), library_artists |-> lib] :
        toks \in TokenLists(n), lib \in SeqsOfLen(LibraryRecords, l)}

RECURSIVE SongRecords(_, _)
SongRecords(songs, i) ==
    IF i > Len(songs) THEN 0
    ELSE (IF songs[i].artists = <<>> THEN 1 ELSE Len(songs[i].artists))
             + SongRecords(songs, i + 1)

\* The number of records of music_data.json.
DataRecords(data) == SongRecords(data.liked_songs, 1) + Len(data.library_artists)

\* The floats 0.0 and 1.0 as fractions.
Zero == [num |-> 0, den |-> 1]   \* 0.0
One == [num |-> 1, den |-> 1]    \* 1.0

Builder == [artist_songs |-> artist_songs, artist_info |-> artist_info, graph |-> graph]

SetBuilder(b) ==
    /\ artist_songs' = b.artist_songs
    /\ artist_info' = b.artist_info
    /\ graph' = b.graph

\* A library of more artists than add_related_artists queries.
LargeLibrary ==
    [liked_songs |-> <<>>,
     library_artists |-> [i \in 1..(ARTIST_LIMIT + 1) |->
                             [id |-> ToString(i), name |-> "L", thumbnail |-> LIB_THUMBNAIL]]]

\* The values of limit_per_artist: the server's, and a smaller one of a
\* direct call.
Limits == {SERVER_LIMIT - 1, SERVER_LIMIT}

GraphInit ==
    /\ pc = "new"
    /\ \/ \E n \in 0..MaxRecords : \E l \in 0..(MaxRecords - n) :
              music_data \in MusicData(n, l)
       \/ music_data = LargeLibrary
    /\ artist_songs = <<>>
    /\ artist_info = <<>>
    /\ graph = EmptyGraph
    /\ limit_per_artist = 0
    /\ artist_ids = <<>>
    /\ rel_i = 0
    /\ info = NoAnswer
    /\ graph_data = NoData
    /\ records_read = 0
    /\ called = "none"
    /\ arg1 = <<>>
    /\ arg2 = <<>>
    /\ result = Zero
    /\ arg3 = <<>>
    /\ calls = 0
    /\ IdleStore

\* builder.load_from_json("music_data.json")
LoadFromJson ==
    /\ pc = "new"
    /\ SetBuilder(load_from_json(Builder, music_data))
    /\ pc' = "loaded"
    /\ records_read' = DataRecords(music_data)
    /\ UNCHANGED <<music_data, limit_per_artist, artist_ids, rel_i, info, graph_data>>

\* builder.add_related_artists(client, limit_per_artist=limit): up to the first
\* client call.
AddRelatedArtists ==
    /\ pc = "loaded"
    /\ limit_per_artist' \in Limits
    /\ artist_ids' = Take(Keys(artist_info), ARTIST_LIMIT)
    /\ rel_i' = 1
    /\ pc' = IF artist_info = <<>> THEN "ready" ELSE "related"
    /\ UNCHANGED <<music_data, artist_songs, artist_info, graph, info, graph_data,
                   records_read>>

\* client.get_artist_info(artist_id) answers, and the loop body runs on the
\* answer; after the last artist the call returns.
GetArtistInfo ==
    /\ pc = "related"
    /\ \E answer \in ClientAnswers(MaxRecords - records_read) :
         /\ info' = answer
         /\ records_read' = records_read + Len(answer.related_artists)
         /\ SetBuilder(ExpandArtist(Builder, artist_ids[rel_i], answer, limit_per_artist))
    /\ rel_i' = rel_i + 1
    /\ pc' = IF rel_i = Len(artist_ids) THEN "ready" ELSE "related"
    /\ UNCHANGED <<music_data, limit_per_artist, artist_ids, graph_data>>

\* builder.export_for_visualization(graph_file)
\* The caller may export once more (pc = "exported_again"), and no further.
ExportForVisualization ==
    /\ pc \in {"loaded", "ready", "exported"}
    /\ LET b == calculate_node_importance(build_graph_nodes(Builder))
       IN  /\ SetBuilder(b)
           /\ graph_data' = GraphData(b.graph)
    /\ pc' = IF pc = "exported" THEN "exported_again" ELSE "exported"
    /\ UNCHANGED <<music_data, limit_per_artist, artist_ids, rel_i, info, records_read>>

GraphNext ==
    \/ LoadFromJson /\ UNCHANGED <<svars, evars, pvars>>
    \/ AddRelatedArtists /\ UNCHANGED <<svars, evars, pvars>>
    \/ GetArtistInfo /\ UNCHANGED <<svars, evars, pvars>>
    \/ ExportForVisualization /\ UNCHANGED <<svars, evars, pvars>>

Spec == GraphInit /\ [][GraphNext]_vars

(***************************************************************************)
(* taste_similarity.py: the similarity measures.  A dict is a function on  *)
(* its keys, a set of names is a set.                                      *)
(***************************************************************************)
\* Bound of the inputs: a count or weight is at most MaxCount.
MaxCount == 2

ArtistNames == {"X", "Y", "Z"}

\* The dicts from artist or genre names to counts or weights 0..MaxCount.
CountMaps == UNION {[D -> 0..MaxCount] : D \in SUBSET ArtistNames}

\* a / b for b > 0
Quotient(a, b) == [num |-> a, den |-> b]

Min(a, b) == IF a <= b THEN a ELSE b
Max(a, b) == IF a >= b THEN a ELSE b

\* d.get(key, 0)
Get(d, key) == IF key \in DOMAIN d THEN d[key] ELSE 0

\* The mutant of jaccard_similarity: without the case of two empty sets.
JaccardNoEmptyCase(set1, set2) ==
    IF set1 = {} \/ set2 = {} THEN Zero
    ELSE Quotient(Cardinality(set1 \cap set2), Cardinality(set1 \cup set2))

jaccard_similarity(set1, set2) ==
    IF set1 = {} /\ set2 = {} THEN One
    ELSE IF set1 = {} \/ set2 = {} THEN Zero
    ELSE LET intersection == Cardinality(set1 \cap set2)
             union == Cardinality(set1 \cup set2)
         IN  IF union > 0 THEN Quotient(intersection, union) ELSE Zero

\* The sums a loop "for key in keys" accumulates.
RECURSIVE SumOver(_, _)
SumOver(keys, term) ==
    IF keys = {} THEN 0
    ELSE LET key == CHOOSE k \in keys : TRUE
         IN  term[key] + SumOver(keys \ {key}, term)

\* The mutant of cosine_similarity: without the case of no keys at all.
CosineNoEmptyCase(vec1, vec2) ==
    LET all_keys == DOMAIN vec1 \cup DOMAIN vec2
        dot_product == SumOver(all_keys, [k \in all_keys |-> Get(vec1, k) * Get(vec2, k)])
        mag1 == SumOver(all_keys, [k \in all_keys |-> Get(vec1, k) * Get(vec1, k)])
        mag2 == SumOver(all_keys, [k \in all_keys |-> Get(vec2, k) * Get(vec2, k)])
    IN  IF mag1 = 0 \/ mag2 = 0 THEN [num |-> 0, radicand |-> 1]
        ELSE [num |-> dot_product, radicand |-> mag1 * mag2]

\* mag1, mag2 are the sums before math.sqrt: sqrt(m) = 0 exactly when m = 0,
\* and sqrt(mag1) * sqrt(mag2) is sqrt(mag1 * mag2).
cosine_similarity(vec1, vec2) ==
    LET all_keys == DOMAIN vec1 \cup DOMAIN vec2
        dot_product == SumOver(all_keys, [k \in all_keys |-> Get(vec1, k) * Get(vec2, k)])
        mag1 == SumOver(all_keys, [k \in all_keys |-> Get(vec1, k) * Get(vec1, k)])
        mag2 == SumOver(all_keys, [k \in all_keys |-> Get(vec2, k) * Get(vec2, k)])
    IN  IF all_keys = {} THEN [num |-> 1, radicand |-> 1]
        ELSE IF mag1 = 0 \/ mag2 = 0 THEN [num |-> 0, radicand |-> 1]
        ELSE [num |-> dot_product, radicand |-> mag1 * mag2]

\* A mutant of weighted_overlap: a zero denominator gives 1.0.
WeightedOverlapOneOnZero(counts1, counts2) ==
    LET all_artists == DOMAIN counts1 \cup DOMAIN counts2
        min_sum == SumOver(all_artists, [a \in all_artists |-> Min(Get(counts1, a), Get(counts2, a))])
        max_sum == SumOver(all_artists, [a \in all_artists |-> Max(Get(counts1, a), Get(counts2, a))])
    IN  IF max_sum > 0 THEN Quotient(min_sum, max_sum) ELSE One

\* A mutant of weighted_overlap: only the artists of counts1 are summed.
WeightedOverlapFirstKeys(counts1, counts2) ==
    LET all_artists == DOMAIN counts1
        min_sum == SumOver(all_artists, [a \in all_artists |-> Min(Get(counts1, a), Get(counts2, a))])
        max_sum == SumOver(all_artists, [a \in all_artists |-> Max(Get(counts1, a), Get(counts2, a))])
    IN  IF all_artists = {} THEN One
        ELSE IF max_sum > 0 THEN Quotient(min_sum, max_sum) ELSE Zero

weighted_overlap(counts1, counts2) ==
    LET all_artists == DOMAIN counts1 \cup DOMAIN counts2
        min_sum == SumOver(all_artists, [a \in all_artists |-> Min(Get(counts1, a), Get(counts2, a))])
        max_sum == SumOver(all_artists, [a \in all_artists |-> Max(Get(counts1, a), Get(counts2, a))])
    IN  IF all_artists = {} THEN One
        ELSE IF max_sum > 0 THEN Quotient(min_sum, max_sum) ELSE Zero

(***************************************************************************)
(* The measures applied to two dicts: jaccard_similarity to their key      *)
(* sets, cosine_similarity and weighted_overlap to the dicts.              *)
(***************************************************************************)
MeasureInit ==
    /\ called = "none"
    /\ arg1 \in CountMaps
    /\ arg2 \in CountMaps
    /\ result = Zero
    /\ arg3 = <<>>
    /\ calls = 0
    /\ pc = "new"
    /\ music_data = [liked_songs |-> <<>>, library_artists |-> <<>>]
    /\ artist_songs = <<>>
    /\ artist_info = <<>>
    /\ graph = EmptyGraph
    /\ limit_per_artist = 0
    /\ artist_ids = <<>>
    /\ rel_i = 0
    /\ info = NoAnswer
    /\ graph_data = NoData
    /\ records_read = 0
    /\ IdleStore

CallJaccard ==
    /\ called' = "jaccard_similarity"
    /\ result' = jaccard_similarity(DOMAIN arg1, DOMAIN arg2)
    /\ UNCHANGED <<arg1, arg2>>

CallCosine ==
    /\ called' = "cosine_similarity"
    /\ result' = cosine_similarity(arg1, arg2)
    /\ UNCHANGED <<arg1, arg2>>

CallWeightedOverlap ==
    /\ called' = "weighted_overlap"
    /\ result' = weighted_overlap(arg1, arg2)
    /\ UNCHANGED <<arg1, arg2>>

MeasureNext ==
    \/ CallJaccard /\ UNCHANGED <<gvars, evars, pvars>>
    \/ CallCosine /\ UNCHANGED <<gvars, evars, pvars>>
    \/ CallWeightedOverlap /\ UNCHANGED <<gvars, evars, pvars>>

MeasureSpec == MeasureInit /\ [][MeasureNext]_vars

(***************************************************************************)
(* taste_similarity.py: a listener's music data and its two projections.   *)
(* An artist credit is read by its name only; a missing name is "".        *)
(***************************************************************************)
\* Bound of the inputs: a listener's songs carry at most MaxCredits credits.
MaxCredits == 3

\* The names a credit can carry: an artist name, or none.
CreditNames == <<"X", "Y", "Z", "">>

\* The listener whose songs credit the names in turn, two credits a song.
ProfileOf(names) ==
    [liked_songs |->
        [k \in 1..((Len(names) + 1) \div 2) |->
            [artists |-> [j \in 1..(IF 2 * k <= Len(names) THEN 2 ELSE 1) |->
                              [name |-> names[2 * (k - 1) + j]]]]]]

\* The lists of n credit names, in the order of CreditNames: none of the
\* functions below tells two orders of the same credits apart.
NameLists(n) ==
    {[i \in 1..n |-> CreditNames[ix[i]]] :
        ix \in {f \in [1..n -> 1..Len(CreditNames)] :
                   \A i \in 1..(n - 1) : f[i] <= f[i + 1]}}

Profiles == {ProfileOf(names) : names \in UNION {NameLists(n) : n \in 0..MaxCredits}}

\* A listener with n artists "1" .. "n", artist "i" credited i times: song
\* s credits the artists "s" .. "n".
Catalogue(n) ==
    [liked_songs |->
        [s \in 1..n |->
            [artists |-> [j \in 1..(n - s + 1) |-> [name |-> ToString(s + j - 1)]]]]]

Genres == {"Rock", "Jazz"}

\* The genre lookups: none, or one that knows the artists X and Y.
GenreMaps == {<<>>} \cup [{"X", "Y"} -> Genres]

\* counts[key] += 1 on a Counter
Increment(counts, key) ==
    [k \in DOMAIN counts \cup {key} |-> IF k = key THEN Get(counts, k) + 1 ELSE counts[k]]

\* extract_artist_counts: for artist in song.get('artists', []), from credit j on
RECURSIVE CountCreditsFrom(_, _, _)
CountCreditsFrom(counts, artists, j) ==
    IF Evaluated(counts) /\ j > Len(artists) THEN counts
    ELSE CountCreditsFrom(IF artists[j].name # ""
                          THEN Increment(counts, artists[j].name)
                          ELSE counts,
                          artists, j + 1)

\* extract_artist_counts: for song in music_data.get('liked_songs', []), from song i on
RECURSIVE CountSongsFrom(_, _, _)
CountSongsFrom(counts, songs, i) ==
    IF Evaluated(counts) /\ i > Len(songs) THEN counts
    ELSE CountSongsFrom(CountCreditsFrom(counts, songs[i].artists, 1), songs, i + 1)

extract_artist_counts(data) == CountSongsFrom(<<>>, data.liked_songs, 1)

OTHER_GENRE == "Other"

\* genre_map.get(name, 'Other')
GenreOf(lookup, name) == IF name \in DOMAIN lookup THEN lookup[name] ELSE OTHER_GENRE

\* extract_genre_vector: for artist in song.get('artists', []), from credit j
\* on; the loop state is [genre_counts, total].
RECURSIVE TallyCreditsFrom(_, _, _, _)
TallyCreditsFrom(tally, artists, lookup, j) ==
    IF Evaluated(tally) /\ j > Len(artists) THEN tally
    ELSE TallyCreditsFrom(
             [genre_counts |-> Increment(tally.genre_counts,
                                         GenreOf(lookup, artists[j].name)),
              total |-> tally.total + 1],
             artists, lookup, j + 1)

\* extract_genre_vector: for song in music_data.get('liked_songs', []), from song i on
RECURSIVE TallySongsFrom(_, _, _, _)
TallySongsFrom(tally, songs, lookup, i) ==
    IF Evaluated(tally) /\ i > Len(songs) THEN tally
    ELSE TallySongsFrom(TallyCreditsFrom(tally, songs[i].artists, lookup, 1),
                        songs, lookup, i + 1)

\* genre_counts and total at the end of the loops of extract_genre_vector
GenreTally(data, lookup) ==
    TallySongsFrom([genre_counts |-> <<>>, total |-> 0], data.liked_songs, lookup, 1)

\* A mutant of extract_genre_vector: the tallies are not divided.
GenreTallies(data, lookup) ==
    LET tally == GenreTally(data, lookup)
    IN  [genre \in DOMAIN tally.genre_counts |-> Quotient(tally.genre_counts[genre], 1)]

\* The weight of a genre is the fraction count / total, not reduced.
extract_genre_vector(data, lookup) ==
    LET tally == GenreTally(data, lookup)
    IN  IF tally.total = 0 THEN <<>>
        ELSE [genre \in DOMAIN tally.genre_counts |->
                 Quotient(tally.genre_counts[genre], tally.total)]

(***************************************************************************)
(* round(x * 100, 1), in exact arithmetic.  A score is kept in tenths of a *)
(* percent: 1000 is 100.0.  round() rounds a tie to the even neighbour.    *)
(***************************************************************************)
FULL_SCORE == 1000       \* 100.0
JACCARD_WEIGHT == 400    \* 0.40 of FULL_SCORE
OVERLAP_WEIGHT == 300    \* 0.30 of FULL_SCORE
GENRE_WEIGHT == 300      \* 0.30 of FULL_SCORE

RECURSIVE GCD(_, _)
GCD(a, b) == IF b = 0 THEN a ELSE GCD(b, a % b)

\* The fraction in lowest terms.
Reduced(f) ==
    LET g == GCD(f.num, f.den) IN [num |-> f.num \div g, den |-> f.den \div g]

\* The integer nearest to n / d (n >= 0, d > 0), a tie going to the even one.
RoundFraction(n, d) ==
    LET q == (2 * n + d) \div (2 * d)
    IN  IF (2 * n + d) % (2 * d) = 0 /\ q % 2 = 1 THEN q - 1 ELSE q

\* The integer part of the square root.
Isqrt(n) == CHOOSE s \in 0..n : s * s <= n /\ n < (s + 1) * (s + 1)

\* (sqrt(R) + a) / b >= p / q, for R not a square, s = Isqrt(R), and
\* (sqrt(R) + a) / b a complete quotient of the continued fraction of
\* sqrt(R): the integer parts decide, or else the reciprocals of the
\* fractional parts do (the numbers never outgrow p, q and 2s).
RECURSIVE SurdGeq(_, _, _, _, _, _)
SurdGeq(R, s, a, b, p, q) ==
    LET k == (s + a) \div b
        a1 == k * b - a
    IN  IF k # p \div q THEN k > p \div q
        ELSE IF p % q = 0 THEN TRUE
        ELSE ~SurdGeq(R, s, a1, (R - a1 * a1) \div b, q, p % q)

\* A value n/d + w * c, where c = c.num / sqrt(c.radicand) is a result of
\* cosine_similarity: it is at least k / 2.
HalfGeq(n, d, w, c, k) ==
    LET m == k * d - 2 * n
        s == Isqrt(c.radicand)
    IN  IF m <= 0 THEN TRUE
        ELSE IF c.num = 0 THEN FALSE
        ELSE IF s * s = c.radicand THEN s * m <= 2 * d * w * c.num
        ELSE ~SurdGeq(c.radicand, s, 0, 1, 2 * d * w * c.num, m)

\* The largest r in lo..hi with n/d + w * c >= r - 1/2.
RECURSIVE RoundBetween(_, _, _, _, _, _)
RoundBetween(n, d, w, c, lo, hi) ==
    LET mid == (lo + hi + 1) \div 2
    IN  IF lo = hi THEN lo
        ELSE IF HalfGeq(n, d, w, c, 2 * mid - 1)
             THEN RoundBetween(n, d, w, c, mid, hi)
             ELSE RoundBetween(n, d, w, c, lo, mid - 1)

\* A mutant of Round: the value is cut, not rounded.
RoundDown(n, d, w, c) == RoundBetween(n, d, w, c, 0, FULL_SCORE) - (IF HalfGeq(n, d, w, c, 2 * RoundBetween(n, d, w, c, 0, FULL_SCORE)) THEN 0 ELSE 1)

\* round(n/d + w * c): a rational value is rounded as a fraction, an
\* irrational one is never a tie.
Round(n, d, w, c) ==
    LET s == Isqrt(c.radicand)
    IN  IF c.num = 0 THEN RoundFraction(n, d)
        ELSE IF s * s = c.radicand
             THEN RoundFraction(n * s + w * c.num * d, d * s)
             ELSE RoundBetween(n, d, w, c, 0, FULL_SCORE)

\* The counts of a genre vector: its weights times their common
\* denominator, divided by what they have in common.  cosine_similarity
\* does not change when a vector is scaled.
RECURSIVE GCDOver(_, _)
GCDOver(keys, term) ==
    IF keys = {} THEN 0
    ELSE LET key == CHOOSE k \in keys : TRUE
         IN  GCD(term[key], GCDOver(keys \ {key}, term))

Scaled(vec) ==
    LET nums == [g \in DOMAIN vec |-> vec[g].num]
        g0 == GCDOver(DOMAIN vec, nums)
    IN  [g \in DOMAIN vec |-> nums[g] \div g0]

(***************************************************************************)
(* taste_similarity.py: calculate_similarity                               *)
(***************************************************************************)
\* A mutant of Overall: scores above one half are folded down.
OverallFolded(artist_jaccard, artist_weighted, genre_cosine) ==
    LET score == Round(JACCARD_WEIGHT * artist_jaccard.num * artist_weighted.den
                           + OVERLAP_WEIGHT * artist_weighted.num * artist_jaccard.den,
                       artist_jaccard.den * artist_weighted.den,
                       GENRE_WEIGHT, genre_cosine)
    IN  IF 2 * score > FULL_SCORE THEN FULL_SCORE - score ELSE score

\* round(overall * 100, 1), for overall = 0.40 * artist_jaccard
\* + 0.30 * artist_weighted + 0.30 * genre_cosine
Overall(artist_jaccard, artist_weighted, genre_cosine) ==
    Round(JACCARD_WEIGHT * artist_jaccard.num * artist_weighted.den
              + OVERLAP_WEIGHT * artist_weighted.num * artist_jaccard.den,
          artist_jaccard.den * artist_weighted.den,
          GENRE_WEIGHT, genre_cosine)

SHARED_CAP == 50   \* shared_sorted[:50]
UNIQUE_CAP == 30   \* unique_1_sorted[:30]

\* sorted(S, key=..., reverse=True) on a set S: the lists it can return.
\* The sort is stable, and a set is walked in an order of its own, so that
\* elements of equal key come in any order.
RECURSIVE SortedDescending(_, _)
SortedDescending(S, key) ==
    IF Evaluated(key) /\ S = {} THEN {<<>>}
    ELSE UNION {{<<x>> \o rest : rest \in SortedDescending(S \ {x}, key)} :
                   x \in {y \in S : \A z \in S : key[y] >= key[z]}}

\* The return values of calculate_similarity(profile1, profile2, genre_map):
\* one for each outcome of its three sorts.
calculate_similarity(profile1, profile2, lookup) ==
    LET counts1 == extract_artist_counts(profile1)
        counts2 == extract_artist_counts(profile2)
        artists1 == DOMAIN counts1
        artists2 == DOMAIN counts2
        artist_jaccard == Reduced(jaccard_similarity(artists1, artists2))
        artist_weighted == Reduced(weighted_overlap(counts1, counts2))
        genre_vec1 == extract_genre_vector(profile1, lookup)
        genre_vec2 == extract_genre_vector(profile2, lookup)
        genre_cosine == cosine_similarity(Scaled(genre_vec1), Scaled(genre_vec2))
        shared_artists == artists1 \cap artists2
        unique_to_1 == artists1 \ artists2
        unique_to_2 == artists2 \ artists1
    IN  {[overall |-> Overall(artist_jaccard, artist_weighted, genre_cosine),
          artist_overlap |-> RoundFraction(FULL_SCORE * artist_jaccard.num, artist_jaccard.den),
          weighted_overlap |-> RoundFraction(FULL_SCORE * artist_weighted.num,
                                             artist_weighted.den),
          genre_match |-> Round(0, 1, FULL_SCORE, genre_cosine),
          shared_artists |-> Take(shared_sorted, SHARED_CAP),
          shared_count |-> Cardinality(shared_artists),
          unique_to_profile1 |-> Take(unique_1_sorted, UNIQUE_CAP),
          unique_to_profile2 |-> Take(unique_2_sorted, UNIQUE_CAP),
          profile1_artist_count |-> Cardinality(artists1),
          profile2_artist_count |-> Cardinality(artists2),
          genre_breakdown |-> [profile1 |-> genre_vec1, profile2 |-> genre_vec2]] :
            shared_sorted \in SortedDescending(shared_artists,
                [a \in shared_artists |-> Get(counts1, a) + Get(counts2, a)]),
            unique_1_sorted \in SortedDescending(unique_to_1,
                [a \in unique_to_1 |-> Get(counts1, a)]),
            unique_2_sorted \in SortedDescending(unique_to_2,
                [a \in unique_to_2 |-> Get(counts2, a)])}

\* Catalogue(n) with one more song that credits artist "1": the artists "1"
\* and "2" are both credited twice.
TiedCatalogue(n) ==
    [liked_songs |-> Append(Catalogue(n).liked_songs, [artists |-> <<[name |-> "1"]>>])]

\* The listeners compared: the small ones, one with more artists than any
\* cap of the result, and one whose two least credited artists are tied.
PairProfiles == Profiles \cup {Catalogue(SHARED_CAP + 1), TiedCatalogue(SHARED_CAP + 1)}

IdleBuilder ==
    /\ pc = "new"
    /\ music_data = [liked_songs |-> <<>>, library_artists |-> <<>>]
    /\ artist_songs = <<>>
    /\ artist_info = <<>>
    /\ graph = EmptyGraph
    /\ limit_per_artist = 0
    /\ artist_ids = <<>>
    /\ rel_i = 0
    /\ info = NoAnswer
    /\ graph_data = NoData
    /\ records_read = 0

PairInit ==
    /\ called = "none"
    /\ arg1 \in PairProfiles
    /\ arg2 \in PairProfiles
    /\ arg3 \in GenreMaps
    /\ result = <<>>
    /\ calls = 0
    /\ IdleBuilder
    /\ IdleStore

CallCalculateSimilarity ==
    /\ called = "none"
    /\ called' = "calculate_similarity"
    /\ result' \in calculate_similarity(arg1, arg2, arg3)
    /\ UNCHANGED <<arg1, arg2, arg3, calls>>

PairNext == CallCalculateSimilarity /\ UNCHANGED <<gvars, pvars>>

PairSpec == PairInit /\ [][PairNext]_vars

(***************************************************************************)
(* taste_similarity.py: calculate_group_similarity                         *)
(***************************************************************************)
SELF_SIMILARITY == 1000   \* row.append(100.0)
CONSENSUS_CAP == 20       \* consensus_sorted[:20]
BRIDGE_CAP == 20          \* bridge_artists[:20]

NEED_TWO == "Need at least 2 profiles to compare"

\* result['overall'] of calculate_similarity: every outcome of the sorts has
\* the same scores.
OverallOf(profile1, profile2, lookup) ==
    (CHOOSE r \in calculate_similarity(profile1, profile2, lookup) : TRUE).overall

\* A mutant of MatrixEntry: the lower triangle is computed like the upper.
MatrixEntryComputed(st, profiles, lookup, i, j) ==
    IF i = j
    THEN [st EXCEPT !.row = Append(@, SELF_SIMILARITY)]
    ELSE [st EXCEPT !.row = Append(@, OverallOf(profiles[i].music_data,
                                                 profiles[j].music_data, lookup)),
                    !.calls = @ + 1]

\* The body of the loop over j: st is [matrix, row, calls], the rows
\* appended so far, the row under way, the calls of calculate_similarity.
MatrixEntry(st, profiles, lookup, i, j) ==
    IF i = j
    THEN [st EXCEPT !.row = Append(@, SELF_SIMILARITY)]
    ELSE IF i < j
    THEN [st EXCEPT !.row = Append(@, OverallOf(profiles[i].music_data,
                                                 profiles[j].music_data, lookup)),
                    !.calls = @ + 1]
    ELSE [st EXCEPT !.row = Append(@, st.matrix[j][i])]

\* for j in range(n), from j on
RECURSIVE MatrixRowFrom(_, _, _, _, _)
MatrixRowFrom(st, profiles, lookup, i, j) ==
    IF Evaluated(st) /\ j > Len(profiles) THEN st
    ELSE MatrixRowFrom(MatrixEntry(st, profiles, lookup, i, j), profiles, lookup, i, j + 1)

\* for i in range(n), from i on
RECURSIVE MatrixFrom(_, _, _, _)
MatrixFrom(st, profiles, lookup, i) ==
    IF Evaluated(st) /\ i > Len(profiles) THEN st
    ELSE LET done == MatrixRowFrom([st EXCEPT !.row = <<>>], profiles, lookup, i, 1)
         IN  MatrixFrom([done EXCEPT !.matrix = Append(@, done.row)],
                        profiles, lookup, i + 1)

\* sum(c.get(a, 0) for c in all_counts)
RECURSIVE TotalSongs(_, _, _)
TotalSongs(all_counts, a, i) ==
    IF i > Len(all_counts) THEN 0
    ELSE Get(all_counts[i], a) + TotalSongs(all_counts, a, i + 1)

\* A mutant of Intersection: the artists the first two listeners share.
IntersectionOfTwo(sets) == sets[1] \cap sets[2]

\* set.intersection(*all_artists_sets), for a list that is not empty
Intersection(sets) == {a \in sets[1] : \A i \in 1..Len(sets) : a \in sets[i]}

\* set.union(*all_artists_sets)
Union(sets) == UNION {sets[i] : i \in 1..Len(sets)}

\* The bridge artists before the sort, as a set: the list is built while
\* walking the set all_artists.
BridgeArtists(all_counts, all_artists_sets) ==
    LET n == Len(all_artists_sets)
        InProfiles(a) == Cardinality({i \in 1..n : a \in all_artists_sets[i]})
    IN  {[name |-> a, in_profiles |-> InProfiles(a),
          total_songs |-> TotalSongs(all_counts, a, 1)] :
            a \in {b \in Union(all_artists_sets) :
                      1 < InProfiles(b) /\ InProfiles(b) < n}}

\* The sort key (-in_profiles, -total_songs) of list.sort, as one number
\* for SortedDescending.
BridgeKey(bridge) ==
    LET base == 1 + SumOver(bridge, [x \in bridge |-> x.total_songs])
    IN  [x \in bridge |-> x.in_profiles * base + x.total_songs]

\* round(n / d, 1) of a mean of scores: the float n / d of a tie can fall
\* on either side of it, so that both neighbours are possible.
MeanRoundings(n, d) ==
    {r \in {n \div d, (n \div d) + 1} : 2 * d * r - d <= 2 * n /\ 2 * n <= 2 * d * r + d}

\* The lists that take their element i from sets[i], from position i on.
RECURSIVE ListsFrom(_, _)
ListsFrom(sets, i) ==
    IF i > Len(sets) THEN {<<>>}
    ELSE {<<x>> \o rest : x \in sets[i], rest \in ListsFrom(sets, i + 1)}

\* sum of a list of scores
RECURSIVE SumSeq(_, _)
SumSeq(s, i) == IF i > Len(s) THEN 0 ELSE s[i] + SumSeq(s, i + 1)

\* p.get('name', f'Profile {i+1}') of the listener at position i (from 1)
NameOf(p, i) == IF "name" \in DOMAIN p THEN p.name ELSE "Profile " \o ToString(i)

\* A mutant of SumOthers: the listener's own entry is summed as well.
SumOthersWithSelf(matrix, i) == SumSeq(matrix[i], 1)

\* others = [matrix[i][j] for j in range(n) if i != j]; sum(others)
SumOthers(matrix, i) == SumSeq(matrix[i], 1) - matrix[i][i]

\* sum(matrix[i][j] for i in range(n) for j in range(i+1, n))
RECURSIVE SumUpper(_, _)
SumUpper(matrix, i) ==
    IF i > Len(matrix) THEN 0
    ELSE SumSeq(matrix[i], i + 1) + SumUpper(matrix, i + 1)

\* A mutant of GroupConsensus: the artists of the first listener.
GroupConsensusFirst(all_artists_sets) == all_artists_sets[1]

\* consensus: the list all_artists_sets is not empty where it is computed.
GroupConsensus(all_artists_sets) == Intersection(all_artists_sets)

\* A mutant of BridgeSorted: the ascending list.
BridgeSortedAscending(bridge) ==
    LET key == BridgeKey(bridge)
    IN  SortedDescending(bridge, [x \in bridge |-> 0 - key[x]])

\* bridge_artists.sort(...): the lists it can leave.
BridgeSorted(bridge) == SortedDescending(bridge, BridgeKey(bridge))

\* A mutant of GroupGuard: a lone listener is compared as well.
GroupGuardOne(n) == n < 1

\* if n < 2
GroupGuard(n) == n < 2

\* The set of [result, calls]: what calculate_group_similarity can return,
\* one per outcome of the sorts and of the roundings of the means, with the
\* number of calls of calculate_similarity it made.
calculate_group_similarity(profiles, lookup) ==
    LET n == Len(profiles)
    IN  IF GroupGuard(n) THEN {[result |-> [error |-> NEED_TWO], calls |-> 0]}
        ELSE
        LET all_counts == [i \in 1..n |-> extract_artist_counts(profiles[i].music_data)]
            all_artists_sets == [i \in 1..n |-> DOMAIN all_counts[i]]
            built == MatrixFrom([matrix |-> <<>>, row |-> <<>>, calls |-> 0],
                                profiles, lookup, 1)
            matrix == built.matrix
            consensus == GroupConsensus(all_artists_sets)
            bridge == BridgeArtists(all_counts, all_artists_sets)
            \* sum(others) / len(others) if others else 0
            averages == [i \in 1..n |-> IF n - 1 > 0
                                         THEN MeanRoundings(SumOthers(matrix, i), n - 1)
                                         ELSE {0}]
        IN  IF ~(Evaluated(all_counts) /\ Evaluated(built)) THEN {} ELSE
            {[result |->
                [matrix |-> matrix,
                 profile_ids |-> [i \in 1..n |-> profiles[i].id],
                 profile_names |-> [i \in 1..n |-> NameOf(profiles[i], i)],
                 consensus_artists |-> Take(consensus_sorted, CONSENSUS_CAP),
                 bridge_artists |-> Take(bridge_artists, BRIDGE_CAP),
                 avg_compatibility |->
                     [i \in 1..n |-> [id |-> profiles[i].id,
                                      name |-> NameOf(profiles[i], i),
                                      avg_compatibility |-> avg[i]]],
                 group_avg |-> group_avg],
              calls |-> built.calls] :
                consensus_sorted \in SortedDescending(consensus,
                    [a \in consensus |-> TotalSongs(all_counts, a, 1)]),
                bridge_artists \in BridgeSorted(bridge),
                avg \in ListsFrom(averages, 1),
                group_avg \in IF n > 1
                              THEN MeanRoundings(2 * SumUpper(matrix, 1), n * (n - 1))
                              ELSE {0}}

(***************************************************************************)
(* The groups of listeners calculate_group_similarity is called with       *)
(***************************************************************************)
\* Bounds: at most MaxListeners listeners, with at most MaxGroupCredits
\* credits between them.
MaxListeners == 4
MaxGroupCredits == 5
GroupNames == <<"X", "Y">>

\* The credits of a group as a list of cells in ascending order: cell c is
\* a credit of listener ((c - 1) \div K) + 1 to the name ((c - 1) % K) + 1.
CellLists(n, t) ==
    {f \in [1..t -> 1..(n * Len(GroupNames))] : \A k \in 1..(t - 1) : f[k] <= f[k + 1]}

\* The names listener i credits, in order.
NamesOfListener(cells, i) ==
    LET K == Len(GroupNames)
        own == SelectSeq(cells, LAMBDA c : ((c - 1) \div K) + 1 = i)
    IN  [k \in 1..Len(own) |-> GroupNames[((own[k] - 1) % K) + 1]]

\* A listener as the server formats it: id, name and music_data.
Listener(i, data) ==
    [id |-> "p" \o ToString(i), name |-> "Listener " \o ToString(i), music_data |-> data]

\* A listener of a direct call, without a name.
Unnamed(i, data) == [id |-> "p" \o ToString(i), music_data |-> data]

Groups ==
    UNION {{[i \in 1..n |-> Listener(i, ProfileOf(NamesOfListener(cells, i)))] :
               cells \in UNION {CellLists(n, t) : t \in 0..MaxGroupCredits}} :
           n \in 0..MaxListeners}

\* Groups of two or three listeners who credit either nothing or more
\* artists than the caps keep.
CatalogueGroups ==
    UNION {{[i \in 1..n |-> Unnamed(i, data[i])] :
               data \in [1..n -> {Catalogue(CONSENSUS_CAP + 1), ProfileOf(<<>>)}]} :
           n \in 2..3}

GroupLookups == {<<>>, [a \in {"X", "Y"} |-> IF a = "X" THEN "Rock" ELSE "Jazz"]}

GroupInit ==
    /\ called = "none"
    /\ arg1 \in Groups \cup CatalogueGroups
    /\ arg2 = <<>>
    /\ arg3 \in GroupLookups
    /\ result = <<>>
    /\ calls = 0
    /\ IdleBuilder
    /\ IdleStore

CallCalculateGroupSimilarity ==
    /\ called = "none"
    /\ called' = "calculate_group_similarity"
    /\ \E out \in calculate_group_similarity(arg1, arg3) :
           /\ result' = out.result
           /\ calls' = out.calls
    /\ UNCHANGED <<arg1, arg2, arg3>>

GroupNext == CallCalculateGroupSimilarity /\ UNCHANGED <<gvars, pvars>>

GroupSpec == GroupInit /\ [][GroupNext]_vars

(***************************************************************************)
(* The composite score as a function of the three sub-scores: one          *)
(* sub-score is raised and the two composites are computed.                *)
(***************************************************************************)
\* Bound: the sub-scores J and W are fractions with denominators up to
\* MaxDenominator; the cosines are those of the vectors of two genres.
MaxDenominator == 3
UnitFractions ==
    {f \in [num : 0..MaxDenominator, den : 1..MaxDenominator] :
        f.num <= f.den /\ GCD(f.num, f.den) = 1}
GenreVectors == {<<>>} \cup [Genres -> 0..MaxCount]
Cosines == {cosine_similarity(u, v) : u, v \in GenreVectors}
SubScores == [jaccard : UnitFractions, weighted : UnitFractions, cosine : Cosines]

\* f < g for fractions, c < e for cosines num / sqrt(radicand)
FractionLess(f, g) == f.num * g.den < g.num * f.den
CosineLess(c, e) == c.num * c.num * e.radicand < e.num * e.num * c.radicand

Overalls(low, high) ==
    [before |-> Overall(low.jaccard, low.weighted, low.cosine),
     after |-> Overall(high.jaccard, high.weighted, high.cosine)]

ScoreInit ==
    /\ called = "none"
    /\ arg1 \in SubScores
    /\ arg2 = <<>>
    /\ arg3 = <<>>
    /\ result = <<>>
    /\ calls = 0
    /\ IdleBuilder
    /\ IdleStore

RaiseJaccard ==
    /\ called = "none"
    /\ \E j \in UnitFractions :
           /\ FractionLess(arg1.jaccard, j)
           /\ arg2' = [arg1 EXCEPT !.jaccard = j]
    /\ called' = "raise_jaccard"
    /\ result' = Overalls(arg1, arg2')
    /\ UNCHANGED <<arg1, arg3, calls>>

RaiseWeighted ==
    /\ called = "none"
    /\ \E w \in UnitFractions :
           /\ FractionLess(arg1.weighted, w)
           /\ arg2' = [arg1 EXCEPT !.weighted = w]
    /\ called' = "raise_weighted"
    /\ result' = Overalls(arg1, arg2')
    /\ UNCHANGED <<arg1, arg3, calls>>

RaiseCosine ==
    /\ called = "none"
    /\ \E c \in Cosines :
           /\ CosineLess(arg1.cosine, c)
           /\ arg2' = [arg1 EXCEPT !.cosine = c]
    /\ called' = "raise_cosine"
    /\ result' = Overalls(arg1, arg2')
    /\ UNCHANGED <<arg1, arg3, calls>>

ScoreNext ==
    \/ RaiseJaccard /\ UNCHANGED <<gvars, pvars>>
    \/ RaiseWeighted /\ UNCHANGED <<gvars, pvars>>
    \/ RaiseCosine /\ UNCHANGED <<gvars, pvars>>

ScoreSpec == ScoreInit /\ [][ScoreNext]_vars

(***************************************************************************)
(* The pairwise comparisons of a group made one by one, in any order: the  *)
(* calls of calculate_similarity that calculate_group_similarity makes in  *)
(* its loop, made by a caller of its own.                                  *)
(***************************************************************************)
\* Bound: the groups compared pair by pair have up to MaxInterleaved
\* listeners.
MaxInterleaved == 3
InterleavedGroups == {g \in Groups : 2 <= Len(g) /\ Len(g) <= MaxInterleaved}

\* The pairs of positions i < j of a group.
PairsOfGroup(profiles) ==
    {p \in (1..Len(profiles)) \X (1..Len(profiles)) : p[1] < p[2]}

\* arg2 keeps the caller's copy of the listeners and the lookup, taken
\* before the first comparison.
InterleaveInit ==
    /\ called = "none"
    /\ arg1 \in InterleavedGroups
    /\ arg3 \in GroupLookups
    /\ arg2 = [profiles |-> arg1, genre_map |-> arg3]
    /\ result = <<>>
    /\ calls = 0
    /\ IdleBuilder
    /\ IdleStore

\* A mutant of ComparePair: the comparison takes the first song of the
\* first listener of the pair away.
ComparePairConsuming ==
    /\ \E p \in PairsOfGroup(arg1) \ DOMAIN result :
           /\ result' = [q \in DOMAIN result \cup {p} |->
                            IF q = p
                            THEN OverallOf(arg1[p[1]].music_data, arg1[p[2]].music_data, arg3)
                            ELSE result[q]]
           /\ arg1' = [arg1 EXCEPT ![p[1]].music_data.liked_songs =
                                       IF @ = <<>> THEN @ ELSE Tail(@)]
    /\ calls' = calls + 1
    /\ called' = "calculate_similarity"
    /\ UNCHANGED <<arg2, arg3>>

\* calculate_similarity(profiles[i]['music_data'], profiles[j]['music_data'],
\* genre_map) for a pair not compared yet; result maps the pairs compared to
\* their overall score.
ComparePair ==
    /\ \E p \in PairsOfGroup(arg1) \ DOMAIN result :
           result' = [q \in DOMAIN result \cup {p} |->
                         IF q = p
                         THEN OverallOf(arg1[p[1]].music_data, arg1[p[2]].music_data, arg3)
                         ELSE result[q]]
    /\ calls' = calls + 1
    /\ called' = "calculate_similarity"
    /\ UNCHANGED <<arg1, arg2, arg3>>

InterleaveNext == ComparePair /\ UNCHANGED <<gvars, pvars>>

InterleaveSpec == InterleaveInit /\ [][InterleaveNext]_vars

(***************************************************************************)
(* profile_manager.py: the profile and group files, and the group-results  *)
(* route of server.py.  A directory is a function from the ids that have a  *)
(* file to the stored document; calls are made one after the other.        *)
(***************************************************************************)
\* Bounds: the ids that generate_profile_id and generate_group_id can give.
MaxProfiles == 3
MaxGroups == 1

ProfileIds == {"p" \o ToString(i) : i \in 1..MaxProfiles}
GroupIds == {"g" \o ToString(i) : i \in 1..MaxGroups}

\* The bodies of POST /api/profile/create: name, public and music_data.
ProfileRequests ==
    {[name |-> "", public |-> TRUE, music_data |-> ProfileOf(<<"X">>)],
     [name |-> "N", public |-> TRUE, music_data |-> ProfileOf(<<"X", "Y">>)],
     [name |-> "N", public |-> FALSE, music_data |-> ProfileOf(<<"Y">>)]}

\* json.dump(document, f) to the file of `id`
Written(files, id, document) ==
    [k \in DOMAIN files \cup {id} |-> IF k = id THEN document ELSE files[k]]

\* path.unlink()
Unlinked(files, id) == [k \in DOMAIN files \ {id} |-> files[k]]

\* [p for p in index["profiles"] if p["id"] != profile_id]
RECURSIVE WithoutId(_, _)
WithoutId(entries, profile_id) ==
    IF entries = <<>> THEN <<>>
    ELSE IF Head(entries).id = profile_id THEN WithoutId(Tail(entries), profile_id)
    ELSE <<Head(entries)>> \o WithoutId(Tail(entries), profile_id)

\* profile_id in group["members"]
IsMember(members, profile_id) == \E k \in 1..Len(members) : members[k] = profile_id

\* group["members"].remove(profile_id): the first occurrence goes.
RECURSIVE Removed(_, _)
Removed(members, profile_id) ==
    IF members = <<>> THEN <<>>
    ELSE IF Head(members) = profile_id THEN Tail(members)
    ELSE <<Head(members)>> \o Removed(Tail(members), profile_id)

Responded(op, group_id, profile_id, returned) ==
    [op |-> op, group_id |-> group_id, profile_id |-> profile_id, returned |-> returned,
     computed |-> FALSE, passed |-> <<>>, body |-> <<>>]

\* update_public_index(profile)
update_public_index(index, profile) ==
    Append(WithoutId(index, profile.id), [id |-> profile.id, name |-> profile.name])

\* create_profile(music_data, name, public), with the id generate_profile_id
\* gives it.
create_profile(profile_id, request) ==
    LET profile == [id |-> profile_id,
                    name |-> IF request.name # "" THEN request.name
                             ELSE "Music Fan #" \o profile_id,
                    public |-> request.public,
                    music_data |-> request.music_data]
    IN  /\ profile_files' = Written(profile_files, profile_id, profile)
        /\ public_index' = IF request.public THEN update_public_index(public_index, profile)
                           ELSE public_index
        /\ response' = Responded("create_profile", "", profile_id, "created")
        /\ UNCHANGED group_files

\* delete_profile(profile_id)
delete_profile(profile_id) ==
    IF profile_id \notin DOMAIN profile_files
    THEN /\ response' = Responded("delete_profile", "", profile_id, "False")
         /\ UNCHANGED <<profile_files, public_index, group_files>>
    ELSE /\ public_index' = WithoutId(public_index, profile_id)
         /\ profile_files' = Unlinked(profile_files, profile_id)
         /\ response' = Responded("delete_profile", "", profile_id, "True")
         /\ UNCHANGED group_files

\* create_group(name), with the id generate_group_id gives it.
create_group(group_id) ==
    /\ group_files' = Written(group_files, group_id,
                              [id |-> group_id, name |-> "Group #" \o group_id,
                               members |-> <<>>])
    /\ response' = Responded("create_group", group_id, "", "created")
    /\ UNCHANGED <<profile_files, public_index>>

\* A mutant of Joined: the profile is added without the membership test.
JoinedAgain(members, profile_id) == Append(members, profile_id)

\* join_group: if profile_id not in group["members"]: append(profile_id)
Joined(members, profile_id) ==
    IF ~IsMember(members, profile_id) THEN Append(members, profile_id) ELSE members

\* join_group(group_id, profile_id)
join_group(group_id, profile_id) ==
    IF group_id \notin DOMAIN group_files \/ profile_id \notin DOMAIN profile_files
    THEN /\ response' = Responded("join_group", group_id, profile_id, "None")
         /\ UNCHANGED <<profile_files, public_index, group_files>>
    ELSE LET group == group_files[group_id]
             members == Joined(group.members, profile_id)
         IN  /\ group_files' = IF members # group.members
                               THEN Written(group_files, group_id,
                                            [group EXCEPT !.members = members])
                               ELSE group_files
             /\ response' = Responded("join_group", group_id, profile_id, "group")
             /\ UNCHANGED <<profile_files, public_index>>

\* leave_group(group_id, profile_id)
leave_group(group_id, profile_id) ==
    IF group_id \notin DOMAIN group_files
           \/ ~IsMember(group_files[group_id].members, profile_id)
    THEN /\ response' = Responded("leave_group", group_id, profile_id, "False")
         /\ UNCHANGED <<profile_files, public_index, group_files>>
    ELSE LET group == group_files[group_id]
         IN  /\ group_files' = Written(group_files, group_id,
                                       [group EXCEPT !.members = Removed(@, profile_id)])
             /\ response' = Responded("leave_group", group_id, profile_id, "True")
             /\ UNCHANGED <<profile_files, public_index>>

\* The loop of get_group_profiles from member k on.
RECURSIVE ProfilesFrom(_, _)
ProfilesFrom(members, k) ==
    IF k > Len(members) THEN <<>>
    ELSE IF members[k] \in DOMAIN profile_files
         THEN <<profile_files[members[k]]>> \o ProfilesFrom(members, k + 1)
         ELSE ProfilesFrom(members, k + 1)

\* The loop of a mutant of get_group_profiles: a member without a file is
\* reported with empty music data.
RECURSIVE ProfilesFromAll(_, _)
ProfilesFromAll(members, k) ==
    IF k > Len(members) THEN <<>>
    ELSE IF members[k] \in DOMAIN profile_files
         THEN <<profile_files[members[k]]>> \o ProfilesFromAll(members, k + 1)
         ELSE <<[id |-> members[k], name |-> "", public |-> FALSE,
                 music_data |-> ProfileOf(<<>>)]>> \o ProfilesFromAll(members, k + 1)

\* A mutant of get_group_profiles: no test of the profile.
GetGroupProfilesAll(group_id) ==
    IF group_id \notin DOMAIN group_files THEN <<>>
    ELSE ProfilesFromAll(group_files[group_id].members, 1)

\* get_group_profiles(group_id)
get_group_profiles(group_id) ==
    IF group_id \notin DOMAIN group_files THEN <<>>
    ELSE ProfilesFrom(group_files[group_id].members, 1)

\* The status codes of the group-results route.
NOT_FOUND == 404
BAD_REQUEST == 400
OK_STATUS == 200

\* if len(profiles) < 2
MIN_MEMBERS == 2

\* GET /api/group/<group_id>/results, with the genre lookup that
\* load_genre_map reads.
api_group_results(group_id, genre_map) ==
    LET profiles == get_group_profiles(group_id)
        formatted == [k \in 1..Len(profiles) |->
                         [id |-> profiles[k].id, name |-> profiles[k].name,
                          music_data |-> profiles[k].music_data]]
        answer(status) == [Responded("api_group_results", group_id, "", status)
                              EXCEPT !.body = [error |-> TRUE]]
    IN  /\ IF profiles = <<>> THEN response' = answer(NOT_FOUND)
           ELSE IF Len(profiles) < MIN_MEMBERS THEN response' = answer(BAD_REQUEST)
           ELSE \E out \in calculate_group_similarity(formatted, genre_map) :
                    response' = [answer(OK_STATUS) EXCEPT
                                    !.computed = TRUE,
                                    !.passed = formatted,
                                    !.body = [result |-> out.result,
                                              group_id |-> group_id,
                                              group_name |-> group_files[group_id].name]]
        /\ UNCHANGED <<profile_files, public_index, group_files>>

IdleMeasures ==
    /\ called = "none"
    /\ arg1 = <<>>
    /\ arg2 = <<>>
    /\ result = <<>>
    /\ arg3 = <<>>
    /\ calls = 0

StoreInit == IdleBuilder /\ IdleMeasures /\ IdleStore

CreateProfile == \E id \in ProfileIds : \E request \in ProfileRequests :
                     create_profile(id, request)
DeleteProfile == \E id \in ProfileIds : delete_profile(id)
CreateGroup == \E id \in GroupIds : create_group(id)
JoinGroup == \E g \in GroupIds : \E id \in ProfileIds : join_group(g, id)
LeaveGroup == \E g \in GroupIds : \E id \in ProfileIds : leave_group(g, id)
ApiGroupResults == \E g \in GroupIds : \E genre_map \in GroupLookups :
                       api_group_results(g, genre_map)

StoreNext ==
    \/ CreateProfile /\ UNCHANGED <<gvars, svars, evars>>
    \/ DeleteProfile /\ UNCHANGED <<gvars, svars, evars>>
    \/ CreateGroup /\ UNCHANGED <<gvars, svars, evars>>
    \/ JoinGroup /\ UNCHANGED <<gvars, svars, evars>>
    \/ LeaveGroup /\ UNCHANGED <<gvars, svars, evars>>
    \/ ApiGroupResults /\ UNCHANGED <<gvars, svars, evars>>

StoreSpec == StoreInit /\ [][StoreNext]_vars

(***************************************************************************)
(* Properties of the graph builder, under Spec.                            *)
(***************************************************************************)
\* The artist identifiers a song credits.
Credited(song) == {song.artists[j].id : j \in 1..Len(song.artists)} \ {""}

\* Every credit of the song has an identifier and a name.
FullCredits(song) ==
    \A j \in 1..Len(song.artists) :
        song.artists[j].id # "" /\ song.artists[j].name # ""

LikedSongs == music_data.liked_songs

\* The edges of the graph between x and y, by position.
EdgesBetween(x, y) ==
    {i \in 1..Len(graph.edges) : {graph.edges[i].u, graph.edges[i].v} = {x, y}}

\* C1, as stated: after load_from_json the collaboration edge between two
\* distinct artists has weight k, the number of songs crediting both, and
\* its song list holds exactly those k song identifiers, each once (the
\* weight 1.0 is COLLAB_WEIGHT).  Stated for lists whose credits all have
\* identifier and name.
C1_AsStated ==
    (pc = "loaded" /\ \A s \in 1..Len(LikedSongs) : FullCredits(LikedSongs[s])) =>
        \A x, y \in ArtistIds : x # y =>
            LET shared == {s \in 1..Len(LikedSongs) :
                              {x, y} \subseteq Credited(LikedSongs[s])}
            IN  IF shared = {} THEN EdgesBetween(x, y) = {}
                ELSE \E i \in EdgesBetween(x, y) :
                        /\ graph.edges[i].type = "collaboration"
                        /\ graph.edges[i].weight = COLLAB_WEIGHT * Cardinality(shared)
                        /\ Len(graph.edges[i].songs) = Cardinality(shared)
                        /\ {graph.edges[i].songs[n] : n \in 1..Len(graph.edges[i].songs)}
                               = {LikedSongs[s].id : s \in shared}

\* C2, as stated: in every state of the builder no edge joins an artist
\* identifier to itself.
C2_AsStated == \A i \in 1..Len(graph.edges) : graph.edges[i].u # graph.edges[i].v

\* C3, as stated: every node of the exported document has a non-empty
\* identifier and a non-empty name, and so has each endpoint of a link.
C3_AsStated ==
    pc = "exported" =>
        LET named == {graph_data.nodes[n].id : n \in
                         {n \in 1..Len(graph_data.nodes) :
                             graph_data.nodes[n].id # "" /\ graph_data.nodes[n].name # ""}}
        IN  /\ \A n \in 1..Len(graph_data.nodes) : graph_data.nodes[n].id \in named
            /\ \A i \in 1..Len(graph_data.links) :
                   graph_data.links[i].source \in named /\ graph_data.links[i].target \in named

\* C4: in every state there is at most one edge between any unordered pair
\* of artist identifiers; and once the songs are loaded, a song whose m
\* distinct artists all have a name has exactly m(m-1)/2 edges between two
\* different artists of the song.
C4_OneEdgePerPair ==
    /\ \A i, j \in 1..Len(graph.edges) :
           i # j => {graph.edges[i].u, graph.edges[i].v} # {graph.edges[j].u, graph.edges[j].v}
    /\ pc # "new" =>
           \A s \in 1..Len(LikedSongs) :
               FullCredits(LikedSongs[s]) =>
                   LET D == Credited(LikedSongs[s])
                       m == Cardinality(D)
                   IN  2 * Cardinality({i \in 1..Len(graph.edges) :
                                           /\ graph.edges[i].u \in D
                                           /\ graph.edges[i].v \in D
                                           /\ graph.edges[i].u # graph.edges[i].v})
                           = m * (m - 1)

\* The related artists the last client answer signalled for the artist
\* before position rel_i.
LastSignals == Take(info.related_artists, limit_per_artist)

\* A related-artist signal reached an existing edge against its direction:
\* the pair still has one edge.
C4_Witness ==
    /\ pc \in {"related", "ready"}
    /\ rel_i > 1
    /\ info.ok
    /\ \E i \in 1..Len(graph.edges) :
          /\ graph.edges[i].v = artist_ids[rel_i - 1]
          /\ graph.edges[i].u # graph.edges[i].v
          /\ \E j \in 1..Len(LastSignals) : LastSignals[j].id = graph.edges[i].u
          /\ graph.edges[i].weight > SIMILAR_WEIGHT
          /\ Cardinality(EdgesBetween(graph.edges[i].u, graph.edges[i].v)) = 1

\* The number of signals for the pair of edge e in the answer to the query
\* about artist_id.
Signals(answer, limit, artist_id, e) ==
    IF answer.ok
    THEN Cardinality({j \in 1..Len(Take(answer.related_artists, limit)) :
                         {artist_id, answer.related_artists[j].id} = {e.u, e.v}})
    ELSE 0

\* C5: no step changes the endpoints or the type of an existing edge; a
\* step of the related-artist expansion leaves the song list of every
\* collaboration edge unchanged and raises its weight by 0.5
\* (SIMILAR_WEIGHT) per signal for its pair; and an edge it creates is a
\* similar edge for a pair that had no edge.
C5_TypeNeverChanges ==
    [][/\ Len(graph'.edges) >= Len(graph.edges)
       /\ \A i \in 1..Len(graph.edges) :
              /\ graph'.edges[i].u = graph.edges[i].u
              /\ graph'.edges[i].v = graph.edges[i].v
              /\ graph'.edges[i].type = graph.edges[i].type
       /\ pc = "related" =>
              /\ \A i \in 1..Len(graph.edges) :
                     graph.edges[i].type = "collaboration" =>
                         /\ graph'.edges[i].songs = graph.edges[i].songs
                         /\ graph'.edges[i].weight = graph.edges[i].weight
                                + SIMILAR_WEIGHT * Signals(info', limit_per_artist,
                                                           artist_ids[rel_i], graph.edges[i])
              /\ \A n \in (Len(graph.edges) + 1)..Len(graph'.edges) :
                     /\ graph'.edges[n].type = "similar"
                     /\ EdgesBetween(graph'.edges[n].u, graph'.edges[n].v) = {}
      ]_vars

\* A collaboration edge that related-artist signals have reached.
C5_Witness ==
    /\ pc \in {"related", "ready"}
    /\ \E i \in 1..Len(graph.edges) :
          /\ graph.edges[i].type = "collaboration"
          /\ graph.edges[i].weight % COLLAB_WEIGHT = SIMILAR_WEIGHT
          /\ graph.edges[i].songs # <<>>

\* C6, as stated: once the liked songs are processed each artist identifier
\* has one entry, and its song_count is the number of songs of the list
\* that credit the artist with identifier and name.
C6_AsStated ==
    pc # "new" =>
        /\ \A i, j \in 1..Len(artist_info) :
               artist_info[i].id = artist_info[j].id => i = j
        /\ \A i \in 1..Len(artist_info) :
               artist_info[i].song_count =
                   Cardinality({s \in 1..Len(LikedSongs) :
                       \E j \in 1..Len(LikedSongs[s].artists) :
                           /\ LikedSongs[s].artists[j].id = artist_info[i].id
                           /\ LikedSongs[s].artists[j].name # ""})

(***************************************************************************)
(* Properties of the similarity measures, under MeasureSpec.               *)
(***************************************************************************)
\* The float f is a / b.
FracEq(f, a, b) == f.num * b = a * f.den

\* The result of cosine_similarity is 0.0, is 1.0.
CosineIsZero(c) == c.num = 0
CosineIsOne(c) == c.num > 0 /\ c.num * c.num = c.radicand

\* The vector has zero magnitude: it has no key or only zero weights.
ZeroMagnitude(vec) == \A k \in DOMAIN vec : vec[k] = 0

\* C7, as stated: cosine_similarity returns 0.0 whenever at least one of
\* the two vectors has zero magnitude, two empty vectors included.
C7_AsStated ==
    (called = "cosine_similarity" /\ (ZeroMagnitude(arg1) \/ ZeroMagnitude(arg2)))
        => CosineIsZero(result)

\* C7, amended: when at least one vector has zero magnitude,
\* cosine_similarity returns 1.0 if neither vector has a key and 0.0 if
\* some key exists.
C7_ZeroMagnitude ==
    (called = "cosine_similarity" /\ (ZeroMagnitude(arg1) \/ ZeroMagnitude(arg2)))
        => IF DOMAIN arg1 = {} /\ DOMAIN arg2 = {}
           THEN CosineIsOne(result)
           ELSE CosineIsZero(result)

C7_Witness ==
    /\ called = "cosine_similarity"
    /\ DOMAIN arg1 = {}
    /\ DOMAIN arg2 = {}
    /\ CosineIsOne(result)

\* C8: jaccard_similarity is |A n B| / |A u B| for two non-empty sets, 1.0
\* for two empty sets and 0.0 when exactly one is empty; it does not depend
\* on the order of its arguments, and J(A, A) = 1.
C8_Jaccard ==
    called = "jaccard_similarity" =>
        LET A == DOMAIN arg1
            B == DOMAIN arg2
        IN  /\ (A = {} /\ B = {}) => result = One
            /\ ((A = {}) # (B = {})) => result = Zero
            /\ (A # {} /\ B # {}) =>
                   FracEq(result, Cardinality({x \in ArtistNames : x \in A /\ x \in B}),
                                  Cardinality({x \in ArtistNames : x \in A \/ x \in B}))
            /\ result = jaccard_similarity(B, A)
            /\ A = B => FracEq(result, 1, 1)

C8_Witness ==
    /\ called = "jaccard_similarity"
    /\ DOMAIN arg1 \cap DOMAIN arg2 # {}
    /\ DOMAIN arg1 \ DOMAIN arg2 # {}
    /\ DOMAIN arg2 \ DOMAIN arg1 # {}
    /\ FracEq(result, 1, 3)

\* C9, as stated: weighted_overlap(A, A) is 1.0 for every map A of
\* non-negative counts, the map whose counts are all zero included.
C9_AsStated ==
    (called = "weighted_overlap" /\ arg1 = arg2) => FracEq(result, 1, 1)

\* C9, amended: weighted_overlap(A, A) is 1.0 when A is empty or has a
\* positive count, and 0.0 when A is not empty and all its counts are zero.
C9_Reflexive ==
    (called = "weighted_overlap" /\ arg1 = arg2) =>
        IF DOMAIN arg1 # {} /\ ZeroMagnitude(arg1)
        THEN FracEq(result, 0, 1)
        ELSE FracEq(result, 1, 1)

C9_Witness ==
    /\ called = "weighted_overlap"
    /\ arg1 = arg2
    /\ DOMAIN arg1 # {}
    /\ ZeroMagnitude(arg1)
    /\ FracEq(result, 0, 1)

\* The number of pairs (artist, unit) with pred: a sum over all artists,
\* an artist without a count counting zero.
Units(pred(_, _)) ==
    Cardinality({p \in ArtistNames \X (1..MaxCount) : pred(p[1], p[2])})

\* C10: weighted_overlap is the sum of the smaller counts over the sum of
\* the larger counts, over the union of the artists, a missing count being
\* zero; it is 1.0 when the union is empty, 0.0 when the union is not empty
\* and the denominator is zero, and always within [0, 1].
C10_WeightedOverlap ==
    called = "weighted_overlap" =>
        LET min_sum == Units(LAMBDA a, k : k <= Get(arg1, a) /\ k <= Get(arg2, a))
            max_sum == Units(LAMBDA a, k : k <= Get(arg1, a) \/ k <= Get(arg2, a))
        IN  /\ (DOMAIN arg1 = {} /\ DOMAIN arg2 = {}) => FracEq(result, 1, 1)
            /\ (DOMAIN arg1 \cup DOMAIN arg2 # {} /\ max_sum = 0) => FracEq(result, 0, 1)
            /\ max_sum > 0 => FracEq(result, min_sum, max_sum)
            /\ 0 <= result.num /\ result.num <= result.den /\ result.den > 0

C10_Witness ==
    /\ called = "weighted_overlap"
    /\ DOMAIN arg2 \ DOMAIN arg1 # {}
    /\ DOMAIN arg1 \ DOMAIN arg2 # {}
    /\ result.num > 0
    /\ result.num < result.den

(***************************************************************************)
(* Properties of the listener projections and of calculate_similarity,     *)
(* under PairSpec.                                                         *)
(***************************************************************************)
\* C11, as stated: a credit without a name adds nothing to the frequency
\* map and nothing to the genre tallies, so that for each of the two song
\* lists compared the number of genre tallies is the sum of the counts of
\* the frequency map.
C11_AsStated ==
    called = "calculate_similarity" =>
        \A data \in {arg1, arg2} :
            LET counts == extract_artist_counts(data)
            IN  GenreTally(data, arg3).total = SumOver(DOMAIN counts, counts)

(***************************************************************************)
(* Properties of calculate_group_similarity, under GroupSpec.              *)
(***************************************************************************)
\* The call has returned a comparison of the group arg1.
Compared == called = "calculate_group_similarity" /\ Len(arg1) >= 2

\* The credits of listener i to the name a, as positions in the song list.
CreditsTo(i, a) ==
    LET songs == arg1[i].music_data.liked_songs
    IN  {<<s, j>> \in UNION {{<<s, j>> : j \in 1..Len(songs[s].artists)} : s \in 1..Len(songs)} :
            songs[s].artists[j].name = a}

\* The names listener i credits.
CreditedBy(i) ==
    LET songs == arg1[i].music_data.liked_songs
    IN  UNION {{songs[s].artists[j].name : j \in 1..Len(songs[s].artists)} :
               s \in 1..Len(songs)} \ {""}

\* The listeners who credit the artist a.
ListenersOf(a) == {i \in 1..Len(arg1) : a \in CreditedBy(i)}

\* The artists of the group, and those every listener credits.
GroupArtists == UNION {CreditedBy(i) : i \in 1..Len(arg1)}
InEverySet == {a \in GroupArtists : ListenersOf(a) = 1..Len(arg1)}

\* The credits of the whole group to the artist a.
GroupCount(a) ==
    LET counts == [i \in 1..Len(arg1) |-> Cardinality(CreditsTo(i, a))]
    IN  SumSeq(counts, 1)

Range(s) == {s[k] : k \in 1..Len(s)}
NoRepeat(s) == \A k, l \in 1..Len(s) : s[k] = s[l] => k = l

\* C12, as stated: consensus_artists reports every artist found in all n
\* sets, so that the reported artists are the intersection of the sets.
C12_AsStated == Compared => Range(result.consensus_artists) = InEverySet

\* C12, amended: consensus_artists lists without repeats the artists found
\* in all n sets by descending group count, cut to the first CONSENSUS_CAP;
\* it is the whole intersection when that has at most CONSENSUS_CAP artists.
C12_ConsensusCapped ==
    Compared =>
        LET listed == result.consensus_artists
        IN  /\ NoRepeat(listed)
            /\ Range(listed) \subseteq InEverySet
            /\ Len(listed) = Min(Cardinality(InEverySet), CONSENSUS_CAP)
            /\ \A k \in 1..Len(listed) :
                   /\ k < Len(listed) => GroupCount(listed[k]) >= GroupCount(listed[k + 1])
                   /\ \A a \in InEverySet \ Range(listed) :
                          GroupCount(listed[k]) >= GroupCount(a)

\* Three listeners: all credit Y, two of them credit X.
C12_Witness ==
    /\ Compared
    /\ Len(arg1) = 3
    /\ ListenersOf("Y") = {1, 2, 3}
    /\ Cardinality(ListenersOf("X")) = 2
    /\ result.consensus_artists = <<"Y">>

\* C13: for n >= 2 every artist of consensus_artists is in the artist set of
\* every listener, so that a listener with an empty song list leaves no
\* consensus artist.
C13_ConsensusInEverySet ==
    Compared =>
        /\ \A a \in Range(result.consensus_artists) :
               \A i \in 1..Len(arg1) : a \in CreditedBy(i)
        /\ (\E i \in 1..Len(arg1) : arg1[i].music_data.liked_songs = <<>>) =>
               result.consensus_artists = <<>>

\* Three listeners share an artist while another artist misses one of them.
C13_Witness ==
    /\ Compared
    /\ Len(arg1) = 3
    /\ result.consensus_artists # <<>>
    /\ \E a \in GroupArtists : 3 \notin ListenersOf(a)

\* C14: the matrix has n rows of n entries, 100.0 on the diagonal, and is
\* symmetric; for i < j the entry is the overall score of the comparison of
\* listener i with listener j, each pair being compared once, n(n-1)/2
\* comparisons in all; rows and columns follow the order of profile_ids and
\* profile_names, which is the order of the listeners given.
C14_Matrix ==
    Compared =>
        LET n == Len(arg1)
            matrix == result.matrix
        IN  /\ Len(matrix) = n
            /\ \A i \in 1..n : Len(matrix[i]) = n /\ matrix[i][i] = SELF_SIMILARITY
            /\ \A i, j \in 1..n : matrix[i][j] = matrix[j][i]
            /\ \A i, j \in 1..n :
                   i < j => \E r \in calculate_similarity(arg1[i].music_data,
                                                           arg1[j].music_data, arg3) :
                                matrix[i][j] = r.overall
            /\ 2 * calls = n * (n - 1)
            /\ Len(result.profile_ids) = n /\ Len(result.profile_names) = n
            /\ \A i \in 1..n :
                   /\ result.profile_ids[i] = arg1[i].id
                   /\ "name" \in DOMAIN arg1[i] => result.profile_names[i] = arg1[i].name

\* Three listeners, three comparisons, three different scores.
C14_Witness ==
    /\ Compared
    /\ Len(arg1) = 3
    /\ calls = 3
    /\ Cardinality({result.matrix[1][2], result.matrix[1][3], result.matrix[2][3]}) = 3
    /\ result.matrix[3][1] = result.matrix[1][3]

\* The artists found in more than one and fewer than all of the n sets.
InSomeSets ==
    {a \in GroupArtists : 1 < Cardinality(ListenersOf(a))
                          /\ Cardinality(ListenersOf(a)) < Len(arg1)}

\* The entry x comes no later than the entry y: more listeners, or as many
\* and no fewer songs.
BridgeBefore(x, y) ==
    \/ x.in_profiles > y.in_profiles
    \/ x.in_profiles = y.in_profiles /\ x.total_songs >= y.total_songs

\* The bridge entry of the artist a.
BridgeEntry(a) ==
    [name |-> a, in_profiles |-> Cardinality(ListenersOf(a)), total_songs |-> GroupCount(a)]

\* C15: bridge_artists holds the artists found in strictly more than one and
\* fewer than n sets, each with the number of sets holding it (in_profiles)
\* and its count across the group (total_songs), ordered by in_profiles
\* descending, then total_songs descending, and cut to the first 20; there
\* is none when n = 2, and none is a consensus artist.
C15_BridgeArtists ==
    Compared =>
        LET listed == result.bridge_artists
        IN  /\ NoRepeat(listed)
            /\ \A k \in 1..Len(listed) :
                   /\ listed[k].name \in InSomeSets
                   /\ listed[k] = BridgeEntry(listed[k].name)
                   /\ k < Len(listed) => BridgeBefore(listed[k], listed[k + 1])
                   /\ \A a \in InSomeSets \ {listed[l].name : l \in 1..Len(listed)} :
                          BridgeBefore(listed[k], BridgeEntry(a))
            /\ Len(listed) = Min(Cardinality(InSomeSets), BRIDGE_CAP)
            /\ Len(arg1) = 2 => listed = <<>>
            /\ \A k \in 1..Len(listed) : listed[k].name \notin Range(result.consensus_artists)

\* Four listeners: an artist of three of them is listed before an artist of
\* two of them.
C15_Witness ==
    /\ Compared
    /\ Len(arg1) = 4
    /\ Len(result.bridge_artists) = 2
    /\ result.bridge_artists[1].in_profiles = 3
    /\ result.bridge_artists[2].in_profiles = 2

\* C16: with fewer than two listeners calculate_group_similarity compares
\* nothing and returns the error alone.
C16_TooFewListeners ==
    (called = "calculate_group_similarity" /\ Len(arg1) < 2) =>
        /\ result = [error |-> NEED_TWO]
        /\ DOMAIN result = {"error"}
        /\ calls = 0

\* A call with one listener, who has songs, has returned.
C16_Witness ==
    /\ called = "calculate_group_similarity"
    /\ Len(arg1) = 1
    /\ arg1[1].music_data.liked_songs # <<>>
    /\ "error" \in DOMAIN result

(***************************************************************************)
(* Properties of the exported importance, under Spec.                      *)
(***************************************************************************)
\* C17, as stated: in an exported graph with k >= 1 nodes and no edges every
\* node has the default base importance 0.01, so that its importance is
\* 0.01 * (1 + 0.1 * song_count), whatever k.
C17_AsStated ==
    (pc = "exported" /\ graph_data.links = <<>>) =>
        \A i \in 1..Len(graph_data.nodes) :
            LET node == graph_data.nodes[i]
            IN  /\ node.importance.exact
                /\ node.importance.num * DEFAULT_IMPORTANCE.den * BOOST_DEN
                       = node.importance.den * DEFAULT_IMPORTANCE.num
                             * (BOOST_DEN + node.song_count)

(***************************************************************************)
(* Properties of the scores and lists of calculate_similarity, under       *)
(* PairSpec.                                                               *)
(***************************************************************************)
\* The names a listener credits, song by song, and the number of credits
\* that satisfy Test.
NamesIn(song) == {song.artists[j].name : j \in 1..Len(song.artists)}
CreditCount(data, Test(_)) ==
    LET songs == data.liked_songs
        each == [s \in 1..Len(songs) |->
                    Cardinality({j \in 1..Len(songs[s].artists) : Test(songs[s].artists[j].name)})]
    IN  SumSeq(each, 1)

\* The named artists of a listener with the number of their credits.
CountsOf(data) ==
    LET named == UNION {NamesIn(data.liked_songs[s]) : s \in 1..Len(data.liked_songs)} \ {""}
        counts == [a \in named |-> CreditCount(data, LAMBDA name : name = a)]
    IN  IF Evaluated(counts) THEN counts ELSE <<>>

\* The genres of a listener with the number of credits tallied into each.
GenreFor(name) == IF name \in DOMAIN arg3 THEN arg3[name] ELSE "Other"
GenreCountsOf(data) ==
    LET names == UNION {NamesIn(data.liked_songs[s]) : s \in 1..Len(data.liked_songs)}
        counts == [g \in {GenreFor(name) : name \in names} |->
                      CreditCount(data, LAMBDA name : GenreFor(name) = g)]
    IN  IF Evaluated(counts) THEN counts ELSE <<>>

\* The three sub-scores of the listeners arg1 and arg2 as numbers: J and W
\* fractions in lowest terms, C = C.num / sqrt(C.radicand).
SubJ == Reduced(jaccard_similarity(DOMAIN CountsOf(arg1), DOMAIN CountsOf(arg2)))
SubW ==
    LET counts1 == CountsOf(arg1)
        counts2 == CountsOf(arg2)
    IN  IF Evaluated(<<counts1, counts2>>)
        THEN Reduced(weighted_overlap(counts1, counts2)) ELSE Zero
SubC ==
    LET g1 == GenreCountsOf(arg1)
        g2 == GenreCountsOf(arg2)
        Lowest(v) == LET g0 == GCDOver(DOMAIN v, v) IN [g \in DOMAIN v |-> v[g] \div g0]
    IN  cosine_similarity(Lowest(g1), Lowest(g2))

\* The integer r is a nearest integer to n/d + w * c.
Nearest(r, n, d, w, c) ==
    LET s == Isqrt(c.radicand)
        N == IF c.num = 0 THEN n ELSE n * s + w * c.num * d
        D == IF c.num = 0 THEN d ELSE d * s
    IN  IF c.num = 0 \/ s * s = c.radicand
        THEN (2 * r - 1) * D <= 2 * N /\ 2 * N <= (2 * r + 1) * D
        ELSE HalfGeq(n, d, w, c, 2 * r - 1) /\ ~HalfGeq(n, d, w, c, 2 * r + 1)

\* C18: overall is (0.40 J + 0.30 W + 0.30 C) * 100 rounded to one decimal,
\* and overall and the three sub-scores lie between 0 and 100.
C18_Overall ==
    called = "calculate_similarity" =>
        LET J == SubJ
            W == SubW
            C == SubC
            n == 400 * J.num * W.den + 300 * W.num * J.den
            d == J.den * W.den
        IN  /\ Evaluated(<<J, W, C, n, d>>)
            /\ \A score \in {result.overall, result.artist_overlap,
                             result.weighted_overlap, result.genre_match} :
                   0 <= score /\ score <= 1000
            /\ Nearest(result.overall, n, d, 300, C)
            /\ Nearest(result.artist_overlap, 1000 * J.num, J.den, 0, C)
            /\ Nearest(result.weighted_overlap, 1000 * W.num, W.den, 0, C)
            /\ Nearest(result.genre_match, 0, 1, 1000, C)

\* The three sub-scores differ and none is 0 or 100.
C18_Witness ==
    /\ called = "calculate_similarity"
    /\ Cardinality({result.artist_overlap, result.weighted_overlap,
                    result.genre_match, 0, 1000}) = 5
    /\ result.overall \notin {result.artist_overlap, result.weighted_overlap,
                              result.genre_match}

\* The list holds without repeats the artists of S with the greatest keys,
\* in descending order of key, as many as S has and at most cap.
TopOf(listed, S, key, cap) ==
    /\ NoRepeat(listed)
    /\ Range(listed) \subseteq S
    /\ Len(listed) = Min(Cardinality(S), cap)
    /\ \A k \in 1..Len(listed) :
           /\ k < Len(listed) => key[listed[k]] >= key[listed[k + 1]]
           /\ \A a \in S \ Range(listed) : key[listed[k]] >= key[a]

\* C19: shared_artists lists the artists of both listeners by descending
\* combined count, cut to the first 50; unique_to_profile1 and
\* unique_to_profile2 list the artists of one listener only by descending
\* own count, cut to the first 30; the three lists are pairwise disjoint and
\* shared_count counts all shared artists.  For A = {X, X, Y} and
\* B = {X, Z, Z}: artist_overlap 33.3, weighted_overlap 20.0, shared [X].
C19_Lists ==
    called = "calculate_similarity" =>
        LET counts1 == CountsOf(arg1)
            counts2 == CountsOf(arg2)
            shared == DOMAIN counts1 \cap DOMAIN counts2
            only1 == DOMAIN counts1 \ DOMAIN counts2
            only2 == DOMAIN counts2 \ DOMAIN counts1
        IN  /\ Evaluated(<<counts1, counts2>>)
            /\ TopOf(result.shared_artists, shared,
                     [a \in shared |-> counts1[a] + counts2[a]], 50)
            /\ TopOf(result.unique_to_profile1, only1, counts1, 30)
            /\ TopOf(result.unique_to_profile2, only2, counts2, 30)
            /\ Range(result.shared_artists) \cap Range(result.unique_to_profile1) = {}
            /\ Range(result.shared_artists) \cap Range(result.unique_to_profile2) = {}
            /\ Range(result.unique_to_profile1) \cap Range(result.unique_to_profile2) = {}
            /\ result.shared_count = Cardinality(shared)
            /\ (counts1 = [a \in {"X", "Y"} |-> IF a = "X" THEN 2 ELSE 1]
                    /\ counts2 = [a \in {"X", "Z"} |-> IF a = "X" THEN 1 ELSE 2]) =>
                   /\ result.artist_overlap = 333
                   /\ result.weighted_overlap = 200
                   /\ result.shared_artists = <<"X">>

\* The listeners A = {X, X, Y} and B = {X, Z, Z} have been compared.
C19_Witness ==
    /\ called = "calculate_similarity"
    /\ CountsOf(arg1) = [a \in {"X", "Y"} |-> IF a = "X" THEN 2 ELSE 1]
    /\ CountsOf(arg2) = [a \in {"X", "Z"} |-> IF a = "X" THEN 1 ELSE 2]
    /\ result.shared_artists = <<"X">>
    /\ result.unique_to_profile1 = <<"Y">>
    /\ result.unique_to_profile2 = <<"Z">>

\* C20: extract_genre_vector tallies one per credit into the genre the
\* lookup gives its name, or into "Other", and divides each tally by the
\* number of tallies: the weights of a vector that is not empty lie in
\* (0, 1] and sum to 1.0, and a listener with no tallies has the empty vector.
C20_GenreVector ==
    called = "calculate_similarity" =>
        \A side \in {<<arg1, result.genre_breakdown.profile1>>,
                     <<arg2, result.genre_breakdown.profile2>>} :
            LET tallies == GenreCountsOf(side[1])
                total == SumOver(DOMAIN tallies, tallies)
                vec == side[2]
            IN  /\ DOMAIN vec = DOMAIN tallies
                /\ \A genre \in DOMAIN vec :
                       /\ vec[genre] = [num |-> tallies[genre], den |-> total]
                       /\ 0 < vec[genre].num /\ vec[genre].num <= vec[genre].den
                /\ vec # <<>> =>
                       SumOver(DOMAIN vec, [genre \in DOMAIN vec |-> vec[genre].num]) = total
                /\ total = 0 => vec = <<>>

\* A listener with credits in three genres, one of them "Other", has been
\* compared with a listener without credits.
C20_Witness ==
    /\ called = "calculate_similarity"
    /\ DOMAIN result.genre_breakdown.profile1 = {"Rock", "Jazz", "Other"}
    /\ result.genre_breakdown.profile2 = <<>>

(***************************************************************************)
(* Properties of the composite score, under ScoreSpec.                     *)
(***************************************************************************)
\* C21: with the other two sub-scores fixed, a larger Jaccard, a larger
\* weighted overlap or a larger genre cosine never gives a smaller rounded
\* overall score.
C21_Monotonic ==
    called \in {"raise_jaccard", "raise_weighted", "raise_cosine"} =>
        result.before <= result.after

\* A cosine that is not rational has been raised, and the overall score rose.
C21_Witness ==
    /\ called = "raise_cosine"
    /\ Isqrt(arg2.cosine.radicand) * Isqrt(arg2.cosine.radicand) # arg2.cosine.radicand
    /\ 0 < arg1.cosine.num
    /\ result.before < result.after

(***************************************************************************)
(* Properties of the group means, under GroupSpec.                         *)
(***************************************************************************)
\* r is the mean sum / count rounded to one decimal (scores in tenths).
RoundedMean(r, sum, count) ==
    2 * count * r - count <= 2 * sum /\ 2 * sum <= 2 * count * r + count

\* C22: for n >= 2 group_avg is the mean of the n(n-1)/2 entries above the
\* diagonal and each listener's avg_compatibility the mean of the n-1
\* entries of the listener's row off the diagonal, rounded to one decimal;
\* for n = 2 all three equal matrix[0][1].
C22_Means ==
    Compared =>
        LET n == Len(arg1)
            matrix == result.matrix
            upper == {<<i, j>> \in (1..n) \X (1..n) : i < j}
            row(i) == {<<i, j>> : j \in (1..n) \ {i}}
            Sum(cells) == SumOver(cells, [c \in cells |-> matrix[c[1]][c[2]]])
        IN  /\ Cardinality(upper) * 2 = n * (n - 1)
            /\ RoundedMean(result.group_avg, Sum(upper), Cardinality(upper))
            /\ Len(result.avg_compatibility) = n
            /\ \A i \in 1..n :
                   /\ RoundedMean(result.avg_compatibility[i].avg_compatibility,
                                  Sum(row(i)), n - 1)
                   /\ result.avg_compatibility[i].id = arg1[i].id
            /\ n = 2 =>
                   /\ result.group_avg = matrix[1][2]
                   /\ result.avg_compatibility[1].avg_compatibility = matrix[1][2]
                   /\ result.avg_compatibility[2].avg_compatibility = matrix[1][2]

\* Three listeners with three different scores: no mean is an entry.
C22_Witness ==
    /\ Compared
    /\ Len(arg1) = 3
    /\ Cardinality({result.matrix[1][2], result.matrix[1][3], result.matrix[2][3]}) = 3
    /\ result.group_avg \notin {result.matrix[1][2], result.matrix[1][3], result.matrix[2][3]}
    /\ result.avg_compatibility[1].avg_compatibility # result.avg_compatibility[2].avg_compatibility

(***************************************************************************)
(* Properties of the related-artist expansion and of the merges, under     *)
(* Spec.                                                                   *)
(***************************************************************************)
\* The weight of the edges of g between x and y together.
PairWeight(g, x, y) ==
    LET between == {i \in 1..Len(g.edges) : {g.edges[i].u, g.edges[i].v} = {x, y}}
    IN  SumOver(between, [i \in between |-> g.edges[i].weight])

\* The identifiers at the ends of the edges of g.
EndsOf(g) == UNION {{g.edges[i].u, g.edges[i].v} : i \in 1..Len(g.edges)}

\* C23: the expansion queries the artists known when it started, at most the
\* first 50 of them in order of first encounter, and uses at most
\* limit_per_artist related artists of each answer; an artist discovered
\* during the expansion is never queried; and each accepted signal adds 0.5
\* (SIMILAR_WEIGHT) to the weight of the one edge between the pair.
C23_Expansion ==
    [][/\ (pc = "loaded" /\ pc' \in {"related", "ready"}) =>
              /\ Len(artist_ids') = Min(Len(artist_info), 50)
              /\ \A i \in 1..Len(artist_ids') : artist_ids'[i] = artist_info[i].id
       /\ pc = "related" =>
              LET queried == artist_ids[rel_i]
                  given == IF info'.ok THEN info'.related_artists ELSE <<>>
                  used == {k \in 1..Len(given) : k <= limit_per_artist /\ given[k].id # ""}
              IN  /\ artist_ids' = artist_ids
                  /\ rel_i <= Len(artist_ids)
                  /\ \A i \in 1..Len(artist_info) :
                         artist_info[i].is_related => artist_info[i].id # queried
                  /\ Cardinality(used) <= limit_per_artist
                  /\ \A x, y \in EndsOf(graph') \cup {queried} :
                         /\ PairWeight(graph', x, y) - PairWeight(graph, x, y)
                                = IF queried \in {x, y}
                                  THEN SIMILAR_WEIGHT
                                           * Cardinality({k \in used : {queried, given[k].id} = {x, y}})
                                  ELSE 0
                         /\ Cardinality({i \in 1..Len(graph'.edges) :
                                {graph'.edges[i].u, graph'.edges[i].v} = {x, y}}) <= 1
      ]_vars

\* The expansion has ended: the last answer named more related artists than
\* limit_per_artist, and an artist discovered on the way was not queried.
C23_Witness ==
    /\ pc = "ready"
    /\ info.ok
    /\ Len(info.related_artists) > limit_per_artist
    /\ \E i \in 1..Len(artist_info) :
           /\ artist_info[i].is_related
           /\ \A k \in 1..Len(artist_ids) : artist_ids[k] # artist_info[i].id

\* The artists known once the liked songs alone are processed.
KnownFromSongs ==
    process_liked_songs([artist_songs |-> <<>>, artist_info |-> <<>>, graph |-> EmptyGraph],
                        music_data.liked_songs).artist_info

\* The library records of the artist id, by position.
LibraryRecordsOf(id) ==
    {l \in 1..Len(music_data.library_artists) : music_data.library_artists[l].id = id}

\* C24: a library record or a related record merged into a known artist
\* leaves the artist's name and song_count unchanged: a library record
\* only sets thumbnail and in_library, and a related record sets is_related
\* only on the entry it creates, with song_count 0.
C24_Merges ==
    [][/\ (pc = "new" /\ pc' = "loaded") =>
              LET known == KnownFromSongs
              IN  /\ Len(artist_info') >= Len(known)
                  /\ \A i \in 1..Len(known) :
                         /\ artist_info'[i].id = known[i].id
                         /\ artist_info'[i].name = known[i].name
                         /\ artist_info'[i].song_count = known[i].song_count
                         /\ artist_info'[i].is_related = known[i].is_related
                         /\ artist_info'[i].in_library = (LibraryRecordsOf(known[i].id) # {})
                         /\ LibraryRecordsOf(known[i].id) = {} =>
                                artist_info'[i].thumbnail = known[i].thumbnail
                  /\ \A i \in (Len(known) + 1)..Len(artist_info') :
                         LET mine == LibraryRecordsOf(artist_info'[i].id)
                         IN  /\ mine # {}
                             /\ artist_info'[i].name
                                    = music_data.library_artists[
                                          CHOOSE l \in mine : \A m \in mine : l <= m].name
                             /\ artist_info'[i].song_count = 0
                             /\ artist_info'[i].in_library
                             /\ ~artist_info'[i].is_related
       /\ pc = "related" =>
              /\ Len(artist_info') >= Len(artist_info)
              /\ \A i \in 1..Len(artist_info) :
                     /\ artist_info'[i]
                            = [artist_info[i] EXCEPT !.thumbnail = artist_info'[i].thumbnail]
                     /\ artist_info[i].id # artist_ids[rel_i] =>
                            artist_info'[i] = artist_info[i]
              /\ \A i \in (Len(artist_info) + 1)..Len(artist_info') :
                     /\ artist_info'[i].is_related
                     /\ artist_info'[i].song_count = 0
                     /\ ~artist_info'[i].in_library
                     /\ \A k \in 1..Len(artist_info) : artist_info[k].id # artist_info'[i].id
      ]_vars

\* An artist known from a liked song has met a library record and a related
\* record: the name and the song_count are those of the songs.
C24_Witness ==
    /\ pc = "ready"
    /\ info.ok
    /\ \E i \in 1..Len(artist_info) :
           /\ artist_info[i].song_count > 0
           /\ artist_info[i].name = "N"
           /\ artist_info[i].in_library
           /\ ~artist_info[i].is_related
           /\ \E k \in 1..Len(LastSignals) : LastSignals[k].id = artist_info[i].id

(***************************************************************************)
(* Properties of the importance over exports, under Spec.                  *)
(***************************************************************************)
\* C25: an export repeated on a builder whose artists and edges did not
\* change gives every node the importance of the export before: the boost
\* is applied to a fresh base and does not compound.
C25_ExportAgain ==
    [][(pc = "exported" /\ pc' = "exported_again") =>
           /\ artist_info' = artist_info
           /\ graph'.edges = graph.edges
           /\ Len(graph_data'.nodes) = Len(graph_data.nodes)
           /\ \A i \in 1..Len(graph_data.nodes) :
                  /\ graph_data'.nodes[i].id = graph_data.nodes[i].id
                  /\ graph_data'.nodes[i].importance = graph_data.nodes[i].importance
                  /\ graph'.nodes[i].importance = graph.nodes[i].importance
      ]_vars

\* A graph without edges holding a node with songs has been exported twice.
C25_Witness ==
    /\ pc = "exported_again"
    /\ graph.edges = <<>>
    /\ \E i \in 1..Len(graph_data.nodes) :
           /\ graph_data.nodes[i].song_count > 0
           /\ graph_data.nodes[i].importance.exact
           /\ graph_data.nodes[i].importance.num > 0

\* C26: the importance of a node is base_importance * (1 + song_count * 0.1)
\* and is not renormalized: of two nodes with the same positive base the one
\* with more songs has the strictly larger importance, and a node with
\* song_count 0 keeps its base.  The base of a node of a graph without edges
\* is 1 / k for k nodes; with edges the importance is held as a multiple of
\* the node's PageRank score.
C26_Boost ==
    pc \in {"exported", "exported_again"} =>
        LET nodes == graph_data.nodes
            k == Len(nodes)
            factor(i) == IF nodes[i].importance.exact
                         THEN [num |-> nodes[i].importance.num * k,
                               den |-> nodes[i].importance.den]
                         ELSE [num |-> nodes[i].importance.num,
                               den |-> nodes[i].importance.den]
        IN  /\ \A i \in 1..k :
                   /\ nodes[i].importance.den > 0
                   /\ nodes[i].importance.exact = (graph_data.links = <<>>)
                   /\ factor(i).num * 10 = factor(i).den * (10 + nodes[i].song_count)
                   /\ nodes[i].song_count = 0 => factor(i).num = factor(i).den
            /\ \A i, j \in 1..k :
                   (nodes[i].importance.exact /\ nodes[j].importance.exact
                        /\ nodes[i].song_count > nodes[j].song_count) =>
                       nodes[i].importance.num * nodes[j].importance.den
                           > nodes[j].importance.num * nodes[i].importance.den

\* A graph without edges has been exported with a node that has songs and a
\* node that has none.
C26_Witness ==
    /\ pc = "exported"
    /\ graph_data.links = <<>>
    /\ \E i, j \in 1..Len(graph_data.nodes) :
           graph_data.nodes[i].song_count > 0 /\ graph_data.nodes[j].song_count = 0

(***************************************************************************)
(* Properties of the comparisons made in any order, under InterleaveSpec.  *)
(***************************************************************************)
\* The scores of the pairs compared so far are those of the matrix of
\* calculate_group_similarity, whose consensus and bridge sets are those of
\* the listeners' artist sets.
SameAsGroup ==
    \A out \in calculate_group_similarity(arg1, arg3) :
        /\ \A p \in DOMAIN result : result[p] = out.result.matrix[p[1]][p[2]]
        /\ Range(out.result.consensus_artists) = InEverySet
        /\ {out.result.bridge_artists[k].name : k \in 1..Len(out.result.bridge_artists)}
               = InSomeSets

Listed(list, cap) == IF Len(list) < cap THEN Range(list) ELSE {Len(list)}

\* The two results agree on the scores and counts, with the sides swapped.
SameScores(r, s) ==
    /\ s.overall = r.overall
    /\ s.artist_overlap = r.artist_overlap
    /\ s.weighted_overlap = r.weighted_overlap
    /\ s.genre_match = r.genre_match
    /\ s.shared_count = r.shared_count
    /\ s.profile1_artist_count = r.profile2_artist_count
    /\ s.profile2_artist_count = r.profile1_artist_count

MembersOf(files, g) == IF g \in DOMAIN files THEN files[g].members ELSE <<>>

\* The members of the group g whose profile is still stored, in their order.
Remaining(g) ==
    SelectSeq(MembersOf(group_files, g), LAMBDA id : id \in DOMAIN profile_files)

\* C29: the group-results route passes to calculate_group_similarity the
\* members whose profile still exists, in their order and with their stored
\* name and music data, and only when at least 2 of them remain; with fewer
\* it answers with an error and computes nothing.
C29_Results ==
    response.op = "api_group_results" =>
        LET remaining == Remaining(response.group_id)
        IN  IF Len(remaining) >= 2
            THEN /\ response.computed
                 /\ response.returned = OK_STATUS
                 /\ Len(response.passed) = Len(remaining)
                 /\ \A k \in 1..Len(remaining) :
                        /\ response.passed[k].id = remaining[k]
                        /\ response.passed[k].name = profile_files[remaining[k]].name
                        /\ response.passed[k].music_data
                               = profile_files[remaining[k]].music_data
                 /\ response.body.result.profile_ids = remaining
                 /\ Len(response.body.result.matrix) = Len(remaining)
            ELSE /\ ~response.computed
                 /\ response.passed = <<>>
                 /\ response.returned \in {NOT_FOUND, BAD_REQUEST}
                 /\ response.body = [error |-> TRUE]

\* The results of a group of three members were asked for after the profile
\* of one of them was deleted: the two others were compared.
C29_Witness ==
    /\ response.op = "api_group_results"
    /\ response.computed
    /\ Len(MembersOf(group_files, response.group_id)) = 3
    /\ Len(Remaining(response.group_id)) = 2
    /\ Len(response.passed) = 2

\* C30: in a sequence of calls the stored members list holds no profile id
\* twice; a member is added only by a join_group of a profile that exists,
\* at the end of the list; a join_group for an unknown group, an unknown
\* profile or a member, and a leave_group of a non-member, leave the group
\* files unchanged.
C30_Members ==
    [][/\ \A g \in DOMAIN group_files' : NoRepeat(group_files'[g].members)
       /\ \A g \in DOMAIN group_files \cap DOMAIN group_files' :
              \A id \in Range(group_files'[g].members) \ Range(group_files[g].members) :
                  /\ response'.op = "join_group"
                  /\ response'.group_id = g
                  /\ response'.profile_id = id
                  /\ id \in DOMAIN profile_files
                  /\ group_files'[g].members = Append(group_files[g].members, id)
       /\ (response' # response /\ response'.op = "join_group") =>
              LET g == response'.group_id
                  id == response'.profile_id
              IN  IF g \in DOMAIN group_files /\ id \in DOMAIN profile_files
                         /\ id \notin Range(group_files[g].members)
                  THEN /\ response'.returned = "group"
                       /\ group_files' = [group_files EXCEPT
                                             ![g].members = Append(@, id)]
                  ELSE group_files' = group_files
       /\ (response' # response /\ response'.op = "leave_group") =>
              LET g == response'.group_id
                  id == response'.profile_id
              IN  (g \notin DOMAIN group_files \/ id \notin Range(group_files[g].members))
                      => (response'.returned = "False" /\ group_files' = group_files)
      ]_vars

\* A join_group for a profile that does not exist has been refused by a
\* group of two members.
C30_Witness ==
    /\ response.op = "join_group"
    /\ response.returned = "None"
    /\ response.group_id \in DOMAIN group_files
    /\ response.profile_id \notin DOMAIN profile_files
    /\ Len(group_files[response.group_id].members) = 2

====
